---- MODULE Spec2Model ----
(***************************************************************************)
(* Zigbee2MQTT offline / stranded-device reconciliation, as implemented by *)
(* mqtt/zigbee-offline-monitor.py (module-level functions and globals) and *)
(* zigbee2mqtt/z2m-get-devices.py (class ZigbeeDeviceCollector).           *)
(*                                                                         *)
(* Python strings are sequences of one-character strings, so that split,   *)
(* startswith, endswith and the f-string concatenations are computed.      *)
(***************************************************************************)
EXTENDS Integers, Sequences, FiniteSets, TLC

(* ------------------------------ bounds --------------------------------- *)
\* messages the broker delivers to the client during one run
MaxMsgs == 3

\* runs of graylog-maintenance.py in one behaviour
MaxRuns == 3

(* ------------------------------ strings -------------------------------- *)
zigbee15 == <<"z","i","g","b","e","e","1","5">>
zigbee11 == <<"z","i","g","b","e","e","1","1">>
COORDINATORS == {zigbee15, zigbee11}

bridge == <<"b","r","i","d","g","e">>
Coordinator == <<"C","o","o","r","d","i","n","a","t","o","r">>
sfx_availability == <<"a","v","a","i","l","a","b","i","l","i","t","y">>
sfx_devices == <<"d","e","v","i","c","e","s">>
sfx_health == <<"h","e","a","l","t","h">>
sfx_info == <<"i","n","f","o">>
sfx_state == <<"s","t","a","t","e">>
offline == <<"o","f","f","l","i","n","e">>
online == <<"o","n","l","i","n","e">>
unknown == <<"u","n","k","n","o","w","n">>
unavailable == <<"u","n","a","v","a","i","l","a","b","l","e">>
EmptyStr == << >>

\* device names used as input: one is a proper prefix of another
Plug == <<"P","l","u","g">>
Plug1 == <<"P","l","u","g","1">>
DeviceNames == {Plug, Plug1, Coordinator}
\* hardware addresses used as input
IeeeA == <<"0","x","a">>
IeeeB == <<"0","x","b">>

\* f"{a}/{b}"
Slash(a, b) == a \o <<"/">> \o b

\* str.startswith
startswith(s, prefix) ==
    Len(prefix) <= Len(s) /\ SubSeq(s, 1, Len(prefix)) = prefix

\* str.endswith
endswith(s, suffix) ==
    Len(suffix) <= Len(s) /\ SubSeq(s, Len(s) - Len(suffix) + 1, Len(s)) = suffix

RECURSIVE SplitAcc(_, _, _)
SplitAcc(s, cur, acc) ==
    IF s = << >> THEN Append(acc, cur)
    ELSE IF Head(s) = "/" THEN SplitAcc(Tail(s), << >>, Append(acc, cur))
    ELSE SplitAcc(Tail(s), Append(cur, Head(s)), acc)

\* topic.split("/")
split(s) == SplitAcc(s, << >>, << >>)

(* ------------------------------ dicts ---------------------------------- *)
EmptyDict == [k \in {} |-> k]

\* d[k] = v
Put(d, k, v) == [x \in (DOMAIN d) \cup {k} |-> IF x = k THEN v ELSE d[x]]

\* d.get(k, default)
Get(d, k, default) == IF k \in DOMAIN d THEN d[k] ELSE default

(* --------------------------- payloads ---------------------------------- *)
\* JSON values
JNum == [t |-> "number"]
JStr(s) == [t |-> "string", s |-> s]
JList(items) == [t |-> "list", items |-> items]
JObj(f) == [t |-> "object", f |-> f]

\* message payloads: bytes that are not UTF-8, text that is not JSON, the
\* empty payload, or the encoding of a JSON value
NotUtf8 == [enc |-> "bytes"]
NotJson == [enc |-> "text"]
EmptyPayload == [enc |-> "empty"]
Json(v) == [enc |-> "json", v |-> v]

\* json.loads(payload.decode("utf-8")): the value, or the exception raised
loads(payload) ==
    CASE payload.enc = "bytes" -> [exc |-> "UnicodeDecodeError"]
      [] payload.enc \in {"text", "empty"} -> [exc |-> "JSONDecodeError"]
      [] OTHER -> [exc |-> "none", v |-> payload.v]

\* isinstance(v, dict) / isinstance(v, list)
isdict(v) == v.t = "object"
islist(v) == v.t = "list"

\* entries of a bridge/devices list
EntryPlug == JObj([friendly_name |-> JStr(Plug), ieee_address |-> JStr(IeeeA)])
EntryPlug1 == JObj([friendly_name |-> JStr(Plug1), ieee_address |-> JStr(IeeeB)])
EntryCoordinator == JObj([friendly_name |-> JStr(Coordinator), ieee_address |-> JStr(IeeeA)])
EntryNoName == JObj([ieee_address |-> JStr(IeeeB)])

\* the bridge/devices lists published: the empty list, one device, two devices, an
\* entry without a name, an entry that is no object
DeviceLists ==
    { << >>, << EntryPlug >>, << EntryPlug1 >>, << EntryCoordinator >>,
      << EntryPlug, EntryPlug1 >>, << EntryNoName >>, << JNum >> }

Malformed == { NotUtf8, NotJson, EmptyPayload, Json(JNum) }

DevicesPayloads ==
    Malformed \cup { Json(JObj([devices |-> JList(<< >>)])) }
              \cup { Json(JList(l)) : l \in DeviceLists }

HealthStats == JObj([messages |-> JNum, leave_count |-> JNum])

HealthPayloads ==
    Malformed \cup { Json(JList(<< >>)), Json(JObj([devices |-> JList(<< >>)])) }
              \cup { Json(JObj([devices |-> JObj([k \in ks |-> HealthStats])])) :
                       ks \in { {IeeeA}, {IeeeA, IeeeB} } }

\* the devices object of a bridge/info config: IEEE address -> device settings
InfoDevices == JObj([k \in {IeeeA} |-> JObj([friendly_name |-> JStr(Plug)])])

InfoPayloads ==
    Malformed \cup { Json(JObj([version |-> JNum])),
                     Json(JObj([config |-> JObj([devices |-> JList(<< >>)])])),
                     Json(JObj([config |-> JObj([devices |-> InfoDevices])])) }

AvailabilityPayloads ==
    Malformed \cup { Json(JList(<< >>)), Json(JObj(EmptyDict)) }
              \cup { Json(JObj([state |-> JStr(s)])) : s \in {offline, online, unavailable} }

OtherPayloads == { EmptyPayload, Json(JObj([state |-> JStr(online)])) }

(* ----------------------------- topics ---------------------------------- *)
BridgeTopic(c, leaf) == Slash(Slash(c, bridge), leaf)

\* what is published under zigbee15: the bridge's own topics, and for every device
\* name its state topic and its availability topic
\* a topic below a device's own topic that ends like a bridge topic
PlugBridgeInfo == Slash(Slash(zigbee15, Plug), Slash(bridge, sfx_info))

Topics15 ==
    { zigbee15, BridgeTopic(zigbee15, sfx_devices), BridgeTopic(zigbee15, sfx_health),
      BridgeTopic(zigbee15, sfx_info), BridgeTopic(zigbee15, sfx_state), PlugBridgeInfo }
    \cup { Slash(zigbee15, n) : n \in DeviceNames }
    \cup { Slash(Slash(zigbee15, n), sfx_availability) : n \in DeviceNames }

\* what is published under zigbee11: its device list and one device's state topic
Topics11 == { BridgeTopic(zigbee11, sfx_devices), Slash(zigbee11, Plug) }

Topics == Topics15 \cup Topics11

\* the payloads tried on a topic: every malformed shape, and the shapes the
\* topic's handler looks for
PayloadsFor(topic) ==
    IF topic \in Topics11
    THEN IF endswith(topic, Slash(bridge, sfx_devices))
         THEN { Json(JList(<< EntryPlug1 >>)) } ELSE { EmptyPayload }
    ELSE IF topic = PlugBridgeInfo THEN { Json(JObj([version |-> JNum])) }
    ELSE IF endswith(topic, Slash(bridge, sfx_devices)) THEN DevicesPayloads
    ELSE IF endswith(topic, Slash(bridge, sfx_health)) THEN HealthPayloads
    ELSE IF endswith(topic, Slash(bridge, sfx_info)) THEN InfoPayloads
    ELSE IF endswith(topic, sfx_availability) THEN AvailabilityPayloads
    ELSE OtherPayloads

\* the messages the broker can deliver
Messages == UNION { { << topic, payload >> : payload \in PayloadsFor(topic) } : topic \in Topics }

\* topic.split("/") of every topic, computed once
topic_split == [topic \in Topics |-> split(topic)]

(* ------------------------------ state ---------------------------------- *)
VARIABLES
    script,                      \* which script this run is
    pc,                          \* position of the main thread
    loop,                        \* the client's network thread
    on_message_cb,               \* the callback installed as client.on_message
    delivered,                   \* messages delivered so far
    raised,                      \* exception that escaped the last callback
    stdout,                      \* the lines printed so far
    args,                        \* parsed command line
    connection,                  \* outcome of connecting to the broker
    \* zigbee-offline-monitor.py globals
    device_count, coordinator_devices, coordinator_ieee_addresses,
    ieee_to_friendly_name, offline_devices, retained_availability,
    all_device_topics, health_devices,
    \* zigbee-offline-monitor.py __main__ locals
    stranded_devices, stranded_health,
    \* cleanup: topics collected in the discovery window, tombstones published
    topics_to_clear, published,
    \* z2m-get-devices.py: ZigbeeDeviceCollector fields (all_device_topics is above)
    devices, availability, bridge_info_received,
    \* z2m-get-devices.py: main's `devices` list, get_stranded_devices' loop position
    merged, iter,
    \* the HTTP requests that change something, in the order they were sent
    requests,
    \* graylog-maintenance.py: the server's event definitions, the state file
    event_definitions, last_disabled_txt,
    \* unifi-delete-offline-devices.py: the controller's two client lists, main's locals
    historical_clients, active_clients, filtered_devices, devices_to_delete,
    \* what happened before: the last payload delivered on each topic
    \* (z2m-get-offline.py), the definitions each run found (graylog-maintenance.py)
    history

monitor_globals ==
    << device_count, coordinator_devices, coordinator_ieee_addresses,
       ieee_to_friendly_name, offline_devices, retained_availability,
       all_device_topics, health_devices >>

main_locals == << stranded_devices, stranded_health, topics_to_clear, published >>

collector_fields == << devices, availability, bridge_info_received >>

collector_locals == << merged, iter >>

graylog_state == << event_definitions, last_disabled_txt >>

unifi_state == << historical_clients, active_clients, filtered_devices, devices_to_delete >>

\* the state of the scripts that are not MQTT listeners
other_scripts == << requests, graylog_state, unifi_state, history >>

vars ==
    << script, pc, loop, on_message_cb, delivered, raised, stdout, args, connection,
       monitor_globals, main_locals, collector_fields, collector_locals,
       other_scripts >>

(* -------------------- Python values of JSON values --------------------- *)
None == [t |-> "null"]

\* dev.get(key) on a dict
dictget(v, key) == IF key \in DOMAIN v.f THEN v.f[key] ELSE None

\* truth value of a JSON value (numbers used here are non-zero)
truthy(v) ==
    CASE v.t = "null" -> FALSE
      [] v.t = "string" -> v.s # EmptyStr
      [] v.t = "list" -> v.items # << >>
      [] v.t = "object" -> DOMAIN v.f # {}
      [] OTHER -> TRUE

\* what the callback's caller sees: the exception that escaped and the lines printed
Returned(lines) == raised' = "none" /\ stdout' = stdout \o lines /\ loop' = loop
\* an exception escapes the callback: the network thread re-raises it and ends
Raised(exc) == raised' = exc /\ stdout' = stdout /\ loop' = "dead"

Line(text, coordinator, n) == [line |-> text, coordinator |-> coordinator, n |-> n]

\* a script that sends no HTTP request and keeps no state file
NoOtherScript ==
    /\ requests = << >>
    /\ event_definitions = << >>
    /\ last_disabled_txt = None
    /\ historical_clients = << >>
    /\ active_clients = << >>
    /\ filtered_devices = << >>
    /\ devices_to_delete = << >>
    /\ history = << >>

(* ------------- zigbee-offline-monitor.py: on_message ------------------- *)
RECURSIVE device_names_of(_)
\* the device_names list built from a bridge/devices list
device_names_of(device_list) ==
    IF device_list = << >> THEN << >>
    ELSE LET dev == Head(device_list)
             rest == device_names_of(Tail(device_list))
         IN IF isdict(dev) /\ truthy(dictget(dev, "friendly_name"))
            THEN << dictget(dev, "friendly_name").s >> \o rest
            ELSE rest

\* an address set that leaves out the addresses that have a name
ieee_addresses_of_unnamed(device_list) ==
    { dictget(device_list[i], "ieee_address").s :
        i \in { j \in DOMAIN device_list : isdict(device_list[j])
                                       /\ truthy(dictget(device_list[j], "ieee_address"))
                                       /\ ~truthy(dictget(device_list[j], "friendly_name")) } }

\* the ieee_addresses set built from a bridge/devices list
ieee_addresses_of(device_list) ==
    { dictget(device_list[i], "ieee_address").s :
        i \in { j \in DOMAIN device_list : isdict(device_list[j])
                                       /\ truthy(dictget(device_list[j], "ieee_address")) } }

RECURSIVE ieee_map_of(_)
\* the ieee_map dict built from a bridge/devices list (a later entry overwrites)
ieee_map_of(device_list) ==
    IF device_list = << >> THEN EmptyDict
    ELSE LET front == SubSeq(device_list, 1, Len(device_list) - 1)
             dev == device_list[Len(device_list)]
         IN IF isdict(dev) /\ truthy(dictget(dev, "ieee_address"))
                            /\ truthy(dictget(dev, "friendly_name"))
            THEN Put(ieee_map_of(front), dictget(dev, "ieee_address").s,
                     dictget(dev, "friendly_name").s)
            ELSE ieee_map_of(front)

\* a roster that grows instead of being replaced
StoreRoster_merging(roster, coordinator, device_names) ==
    Put(roster, coordinator, Get(roster, coordinator, << >>) \o device_names)

\* coordinator_devices[coordinator] = device_names
StoreRoster(roster, coordinator, device_names) == Put(roster, coordinator, device_names)

\* msg.topic.endswith("/bridge/devices")
on_bridge_devices(coordinator, payload) ==
    LET r == loads(payload) IN
    CASE r.exc = "UnicodeDecodeError" ->
            /\ Raised("UnicodeDecodeError")
            /\ UNCHANGED monitor_globals
      [] r.exc = "JSONDecodeError" ->
            /\ Returned(<< Line("Error parsing bridge/devices", coordinator, 0) >>)
            /\ UNCHANGED monitor_globals
      [] r.exc = "none" /\ islist(r.v) ->
            /\ coordinator_devices' =
                 StoreRoster(coordinator_devices, coordinator, device_names_of(r.v.items))
            /\ coordinator_ieee_addresses' =
                 Put(coordinator_ieee_addresses, coordinator, ieee_addresses_of(r.v.items))
            /\ ieee_to_friendly_name' =
                 Put(ieee_to_friendly_name, coordinator, ieee_map_of(r.v.items))
            /\ Returned(<< Line("Loaded devices", coordinator,
                                Len(device_names_of(r.v.items))) >>)
            /\ UNCHANGED << device_count, offline_devices, retained_availability,
                            all_device_topics, health_devices >>
      [] OTHER ->
            /\ Returned(<< >>)
            /\ UNCHANGED monitor_globals

\* msg.topic.endswith("/bridge/health")
on_bridge_health(coordinator, payload) ==
    LET r == loads(payload) IN
    CASE r.exc = "UnicodeDecodeError" ->
            /\ Raised("UnicodeDecodeError")
            /\ UNCHANGED monitor_globals
      [] r.exc = "JSONDecodeError" \/ (r.exc = "none" /\ r.v.t \in {"number", "null"}) ->
            \* "devices" in health raises TypeError on a number or None
            /\ Returned(<< Line("Error parsing bridge/health", coordinator, 0) >>)
            /\ UNCHANGED monitor_globals
      [] r.exc = "none" /\ isdict(r.v) /\ "devices" \in DOMAIN r.v.f
                        /\ isdict(r.v.f["devices"]) ->
            /\ health_devices' = Put(health_devices, coordinator, r.v.f["devices"].f)
            /\ Returned(<< Line("Loaded health entries", coordinator,
                                Cardinality(DOMAIN r.v.f["devices"].f)) >>)
            /\ UNCHANGED << device_count, coordinator_devices, coordinator_ieee_addresses,
                            ieee_to_friendly_name, offline_devices, retained_availability,
                            all_device_topics >>
      [] OTHER ->
            /\ Returned(<< >>)
            /\ UNCHANGED monitor_globals

\* the values of a JSON object, in the order of its keys
RECURSIVE dictvalues(_)
dictvalues(f) ==
    IF DOMAIN f = {} THEN << >>
    ELSE LET k == CHOOSE x \in DOMAIN f : TRUE
         IN << f[k] >> \o dictvalues([x \in (DOMAIN f) \ {k} |-> f[x]])

\* a fallback that never finds a roster loaded
roster_loaded_never(coordinator) == FALSE

\* if coordinator in coordinator_devices: return
roster_loaded(coordinator) == coordinator \in DOMAIN coordinator_devices

\* msg.topic.endswith("/bridge/info")
on_bridge_info(coordinator, payload) ==
    LET r == loads(payload) IN
    CASE roster_loaded(coordinator) ->
            /\ Returned(<< >>)
            /\ UNCHANGED monitor_globals
      [] r.exc = "UnicodeDecodeError" ->
            /\ Raised("UnicodeDecodeError")
            /\ UNCHANGED monitor_globals
      [] r.exc = "JSONDecodeError" \/ (r.exc = "none" /\ r.v.t \in {"number", "null"}) ->
            /\ Returned(<< Line("Error parsing bridge/info", coordinator, 0) >>)
            /\ UNCHANGED monitor_globals
      [] r.exc = "none" /\ isdict(r.v) /\ "config" \in DOMAIN r.v.f
                        /\ isdict(r.v.f["config"])
                        /\ "devices" \in DOMAIN r.v.f["config"].f
                        /\ isdict(r.v.f["config"].f["devices"]) ->
            LET device_names == device_names_of(dictvalues(r.v.f["config"].f["devices"].f)) IN
            /\ coordinator_devices' = StoreRoster(coordinator_devices, coordinator, device_names)
            /\ Returned(<< Line("Loaded devices (via bridge/info)", coordinator,
                                Len(device_names)) >>)
            /\ UNCHANGED << device_count, coordinator_ieee_addresses, ieee_to_friendly_name,
                            offline_devices, retained_availability, all_device_topics,
                            health_devices >>
      [] OTHER ->
            /\ Returned(<< >>)
            /\ UNCHANGED monitor_globals

\* offline_devices[coordinator] after an availability message reporting `state`
track_offline(names, device_name, state) ==
    IF state = offline THEN names \cup {device_name}
    ELSE IF state = online THEN names \ {device_name}
    ELSE names

\* all_device_topics[coordinator] after a message for parts[1] = device_name
track_topic(seen, device_name) ==
    IF ~startswith(device_name, bridge) THEN seen \cup {device_name} ELSE seen

\* the rest of on_message: device topics
on_device_topic(topic, payload) ==
    LET parts == topic_split[topic] IN
    IF Len(parts) < 2
    THEN Returned(<< >>) /\ UNCHANGED monitor_globals
    ELSE
      LET coordinator == parts[1]
          device_name == parts[2]
          seen == [all_device_topics EXCEPT
                     ![coordinator] = track_topic(@, device_name)]
          r == loads(payload)
      IN
      /\ all_device_topics' = seen
      /\ UNCHANGED << coordinator_devices, coordinator_ieee_addresses,
                      ieee_to_friendly_name, health_devices >>
      /\ IF ~endswith(topic, <<"/">> \o sfx_availability)
         THEN /\ Returned(<< >>)
              /\ UNCHANGED << device_count, offline_devices, retained_availability >>
         ELSE CASE r.exc = "UnicodeDecodeError" ->
                     /\ Raised("UnicodeDecodeError")
                     /\ UNCHANGED << device_count, offline_devices, retained_availability >>
                [] r.exc = "JSONDecodeError" ->
                     /\ Returned(<< >>)
                     /\ UNCHANGED << device_count, offline_devices, retained_availability >>
                [] r.exc = "none" /\ ~isdict(r.v) ->
                     \* payload.get on a list, number, string or None
                     /\ Raised("AttributeError")
                     /\ UNCHANGED << device_count, offline_devices, retained_availability >>
                [] OTHER ->
                     LET state == IF "state" \in DOMAIN r.v.f THEN r.v.f["state"].s
                                  ELSE EmptyStr
                     IN
                     /\ retained_availability' =
                          [retained_availability EXCEPT
                             ![coordinator] = Put(@, device_name, state)]
                     /\ offline_devices' =
                          [offline_devices EXCEPT
                             ![coordinator] = track_offline(@, device_name, state)]
                     /\ device_count' = device_count + 1
                     /\ Returned(<< >>)

on_message(topic, payload) ==
    IF endswith(topic, <<"/">> \o Slash(bridge, sfx_devices))
    THEN on_bridge_devices(topic_split[topic][1], payload)
    ELSE IF endswith(topic, <<"/">> \o Slash(bridge, sfx_health))
    THEN on_bridge_health(topic_split[topic][1], payload)
    ELSE IF endswith(topic, <<"/">> \o Slash(bridge, sfx_info))
    THEN on_bridge_info(topic_split[topic][1], payload)
    ELSE on_device_topic(topic, payload)

(* ------------- zigbee-offline-monitor.py: __main__ --------------------- *)
Range(seq) == { seq[i] : i \in DOMAIN seq }

\* the lists a comprehension over a set can build: every iteration order
Orders(S) == { seq \in [1..Cardinality(S) -> S] : Range(seq) = S }

\* a comprehension without its roster filter
stranded_names_unfiltered(seen_devices, device_names) == seen_devices

\* [dev for dev in seen_devices if dev not in coordinator_devices.get(coordinator, [])]
stranded_names(seen_devices, device_names) ==
    { dev \in seen_devices : dev \notin Range(device_names) }

\* the same without the test `coordinator in coordinator_devices`
stranded_keys_without_roster_test ==
    { c \in COORDINATORS :
        /\ all_device_topics[c] # {}
        /\ stranded_names(all_device_topics[c], Get(coordinator_devices, c, << >>)) # {} }

\* the coordinators that get an entry in stranded_devices (empty entries removed)
stranded_keys ==
    { c \in COORDINATORS :
        /\ all_device_topics[c] # {}
        /\ c \in DOMAIN coordinator_devices
        /\ stranded_names(all_device_topics[c], Get(coordinator_devices, c, << >>)) # {} }

\* stranded.append((ieee_addr, friendly_name, health_devs[ieee_addr])) for every
\* ieee_addr of the health report that is not a known address
stranded_health_of(coordinator) ==
    LET known_ieee == Get(coordinator_ieee_addresses, coordinator, {})
        names == Get(ieee_to_friendly_name, coordinator, EmptyDict)
    IN { << ieee_addr, Get(names, ieee_addr, EmptyStr) >> :
           ieee_addr \in { k \in DOMAIN health_devices[coordinator] : k \notin known_ieee } }

\* stranded_devices after "Coordinator" is moved over from offline_devices
move_coordinator(stranded, offline_by_coordinator) ==
    [ c \in (DOMAIN stranded) \cup { k \in COORDINATORS : Coordinator \in offline_by_coordinator[k] } |->
        IF Coordinator \in offline_by_coordinator[c]
        THEN Append(Get(stranded, c, << >>), Coordinator)
        ELSE stranded[c] ]

total(items) ==
    LET RECURSIVE sum(_)
        sum(S) == IF S = {} THEN 0
                  ELSE LET c == CHOOSE x \in S : TRUE IN Len(items[c]) + sum(S \ {c})
    IN sum(DOMAIN items)

NoIter == [active |-> FALSE, todo |-> {}, size |-> 0]

MonitorStart(at, thread, outcome) ==
    /\ script = "zigbee-offline-monitor"
    /\ pc = at
    /\ loop = thread
    /\ connection = outcome
    /\ on_message_cb = "on_message"
    /\ delivered = 0
    /\ raised = "none"
    /\ stdout = << >>
    /\ args \in [remove_stranded : BOOLEAN, no_interactive : BOOLEAN]
    /\ device_count = 0
    /\ coordinator_devices = EmptyDict
    /\ coordinator_ieee_addresses = EmptyDict
    /\ ieee_to_friendly_name = EmptyDict
    /\ offline_devices = [c \in COORDINATORS |-> {}]
    /\ retained_availability = [c \in COORDINATORS |-> EmptyDict]
    /\ all_device_topics = [c \in COORDINATORS |-> {}]
    /\ health_devices = EmptyDict
    /\ stranded_devices = EmptyDict
    /\ stranded_health = EmptyDict
    /\ topics_to_clear = << >>
    /\ published = << >>
    /\ devices = EmptyDict
    /\ availability = EmptyDict
    /\ bridge_info_received = {}
    /\ merged = << >>
    /\ iter = NoIter
    /\ NoOtherScript

\* the state when the monitoring window opens on an accepted connection
MonitorInit == MonitorStart("window", "running", "accepted")

\* the network thread delivers one message of the monitoring window to on_message
MonitorDeliverMsg(topic, payload) ==
    /\ script = "zigbee-offline-monitor"
    /\ pc = "window"
    /\ loop = "running"
    /\ delivered < MaxMsgs
    /\ on_message(topic, payload)
    /\ delivered' = delivered + 1
    /\ UNCHANGED << script, other_scripts, connection, pc, on_message_cb, args, main_locals,
                    collector_fields, collector_locals >>

MonitorDeliver == \E msg \in Messages : MonitorDeliverMsg(msg[1], msg[2])

\* time.sleep(MONITORING_TIME) returns; client.loop_stop()
MonitorLoopStop ==
    /\ script = "zigbee-offline-monitor"
    /\ pc = "window"
    /\ pc' = "classify"
    /\ loop' = "stopped"
    /\ UNCHANGED << script, other_scripts, connection, on_message_cb, delivered, raised, stdout, args,
                    monitor_globals, main_locals, collector_fields, collector_locals >>

\* a Ctrl-C that only cuts the window short: the run goes on to classify
MonitorInterrupt_caught ==
    /\ script = "zigbee-offline-monitor"
    /\ pc = "window"
    /\ pc' = "classify"
    /\ loop' = "stopped"
    /\ stdout' = stdout \o << Line("KeyboardInterrupt", EmptyStr, 0) >>
    /\ UNCHANGED << script, other_scripts, connection, on_message_cb, delivered, raised, args, monitor_globals,
                    main_locals, collector_fields, collector_locals >>

\* Ctrl-C while the main thread is in time.sleep(MONITORING_TIME): no try statement
\* encloses the sleep, so the KeyboardInterrupt ends the process with a traceback
MonitorInterrupt ==
    /\ script = "zigbee-offline-monitor"
    /\ pc = "window"
    /\ pc' = "interrupted"
    /\ loop' = "stopped"
    /\ stdout' = stdout \o << Line("KeyboardInterrupt", EmptyStr, 0) >>
    /\ UNCHANGED << script, other_scripts, connection, on_message_cb, delivered, raised, args, monitor_globals,
                    main_locals, collector_fields, collector_locals >>

\* stranded_devices, stranded_health, the move of "Coordinator", the report
MonitorClassify ==
    /\ script = "zigbee-offline-monitor"
    /\ pc = "classify"
    /\ \E stranded \in [stranded_keys -> UNION { Orders(S) : S \in SUBSET DeviceNames }] :
         /\ \A c \in stranded_keys :
              stranded[c] \in Orders(stranded_names(all_device_topics[c],
                                                    Get(coordinator_devices, c, << >>)))
         /\ stranded_devices' = move_coordinator(stranded, offline_devices)
    /\ stranded_health' =
         [ c \in { k \in DOMAIN health_devices : stranded_health_of(k) # {} } |->
             stranded_health_of(c) ]
    /\ offline_devices' = [c \in COORDINATORS |-> offline_devices[c] \ {Coordinator}]
    /\ stdout' = stdout \o << Line("Found offline devices", EmptyStr,
                         total([c \in COORDINATORS |->
                                  CHOOSE seq \in Orders(offline_devices'[c]) : TRUE])),
                    Line("Total devices checked", EmptyStr, device_count),
                    Line("Found stranded devices", EmptyStr, total(stranded_devices')) >>
    /\ pc' = "decide"
    /\ UNCHANGED << script, other_scripts, connection, loop, on_message_cb, delivered, raised, args,
                    device_count, coordinator_devices, coordinator_ieee_addresses,
                    ieee_to_friendly_name, retained_availability, all_device_topics,
                    health_devices, topics_to_clear, published,
                    collector_fields, collector_locals >>

\* should_remove: --remove-stranded, or the answer to the prompt unless --no-interactive
MonitorDecide ==
    /\ script = "zigbee-offline-monitor"
    /\ pc = "decide"
    /\ \E yes \in BOOLEAN :
         LET prompted == /\ stranded_devices # EmptyDict
                         /\ ~args.remove_stranded
                         /\ ~args.no_interactive
             should_remove == \/ args.remove_stranded
                              \/ (~args.no_interactive /\ yes)
         IN /\ stdout' = stdout \o
                 (IF prompted THEN << Line("Remove stranded devices? [y/N]", EmptyStr, 0) >>
                              ELSE << >>)
            /\ IF stranded_devices # EmptyDict /\ should_remove
               THEN pc' = "clear_stranded_devices"
               ELSE pc' = "done"
    /\ UNCHANGED << script, other_scripts, connection, loop, on_message_cb, delivered, raised, args,
                    monitor_globals, main_locals, collector_fields, collector_locals >>

\* valid_prefixes of clear_stranded_devices
valid_prefixes(stranded) ==
    UNION { { Slash(c, stranded[c][i]) \o <<"/">>, Slash(c, stranded[c][i]) } :
            << c, i >> \in { ci \in COORDINATORS \X (1..Cardinality(DeviceNames) + 1) :
                              ci[1] \in DOMAIN stranded /\ ci[2] \in DOMAIN stranded[ci[1]] } }

\* a test that accepts the listed prefixes themselves only
matches_prefix_exact(topic, prefix) == topic = prefix

\* the test of collect_topics in clear_stranded_devices
matches_prefix(topic, prefix) == topic = prefix \/ startswith(topic, prefix \o <<"/">>)

\* client.on_message = collect_topics; subscribe; client.loop_start()
MonitorClearStart ==
    /\ script = "zigbee-offline-monitor"
    /\ pc = "clear_stranded_devices"
    /\ on_message_cb' = "collect_topics"
    /\ loop' = "running"
    /\ pc' = "clear_listen"
    /\ UNCHANGED << script, other_scripts, connection, delivered, raised, stdout, args,
                    monitor_globals, main_locals, collector_fields, collector_locals >>

\* the network thread delivers one message of the discovery window to collect_topics
MonitorCollectMsg(topic) ==
    /\ script = "zigbee-offline-monitor"
    /\ pc = "clear_listen"
    /\ loop = "running"
    /\ on_message_cb = "collect_topics"
    /\ delivered < MaxMsgs
    /\ topics_to_clear' =
         IF \E prefix \in valid_prefixes(stranded_devices) : matches_prefix(topic, prefix)
         THEN Append(topics_to_clear, topic)
         ELSE topics_to_clear
    /\ delivered' = delivered + 1
    /\ Returned(<< >>)
    /\ UNCHANGED << script, other_scripts, connection, pc, on_message_cb, args, monitor_globals,
                    stranded_devices, stranded_health, published,
                    collector_fields, collector_locals >>

MonitorCollect == \E topic \in Topics : MonitorCollectMsg(topic)

\* what client.publish reports for one tombstone: sent, or an error code (not
\* connected, queue full) in the returned MQTTMessageInfo
PublishOutcomes == {"sent", "failed"}

RECURSIVE sent_upto(_, _, _)
sent_upto(topics, outcome, n) ==
    IF n = 0 THEN << >>
    ELSE IF outcome[n] = "sent" THEN Append(sent_upto(topics, outcome, n - 1), topics[n])
    ELSE sent_upto(topics, outcome, n - 1)

\* the tombstones that reach the broker, in the order published
sent(topics, outcome) == sent_upto(topics, outcome, Len(topics))

\* time.sleep(2) returns; loop_stop; on_message restored; unsubscribe; the tombstones
MonitorClearWith(outcome) ==
    /\ script = "zigbee-offline-monitor"
    /\ pc = "clear_listen"
    /\ loop' = "stopped"
    /\ on_message_cb' = "on_message"
    /\ published' = sent(topics_to_clear, outcome)
    /\ stdout' = stdout \o << Line("Cleared retained message(s)", EmptyStr, Len(topics_to_clear)) >>
    /\ pc' = "done"
    /\ UNCHANGED << script, other_scripts, connection, delivered, raised, args, monitor_globals,
                    stranded_devices, stranded_health, topics_to_clear,
                    collector_fields, collector_locals >>

MonitorClear ==
    \E outcome \in [DOMAIN topics_to_clear -> PublishOutcomes] : MonitorClearWith(outcome)

MonitorNext ==
    \/ MonitorDeliver
    \/ MonitorLoopStop
    \/ MonitorClassify
    \/ MonitorDecide
    \/ MonitorClearStart
    \/ MonitorCollect
    \/ MonitorClear

(* -------- z2m-get-devices.py: ZigbeeDeviceCollector.on_message --------- *)
Unknown == <<"U","n","k","n","o","w","n">>

\* a collector that stores every list it receives
store_device_list_latest(stored, received, bridge_name, data) ==
    IF islist(data) THEN Put(stored, bridge_name, data.items) ELSE stored

\* self.devices after a bridge/devices message: only the first list of a bridge is kept
store_device_list(stored, received, bridge_name, data) ==
    IF islist(data) /\ bridge_name \notin received
    THEN Put(stored, bridge_name, data.items)
    ELSE stored

\* the whole body runs under try / except Exception: nothing escapes
collector_on_message(topic, payload) ==
    LET topic_parts == topic_split[topic]
        bridge_name == topic_parts[1]
        r == loads(payload)
        error == << Line("Error processing message", bridge_name, 0) >>
    IN
    /\ raised' = "none"
    /\ loop' = loop
    /\ all_device_topics' =
         IF Len(topic_parts) >= 2 /\ ~startswith(topic_parts[2], bridge)
         THEN [all_device_topics EXCEPT ![bridge_name] = @ \cup {topic_parts[2]}]
         ELSE all_device_topics
    /\ CASE payload.enc = "empty" \/ r.exc = "JSONDecodeError" ->
              /\ stdout' = stdout
              /\ UNCHANGED collector_fields
         [] r.exc = "UnicodeDecodeError" ->
              /\ stdout' = stdout \o error
              /\ UNCHANGED collector_fields
         [] Len(topic_parts) >= 3 /\ topic_parts[2] = bridge /\ topic_parts[3] = sfx_devices ->
              /\ devices' = store_device_list(devices, bridge_info_received, bridge_name, r.v)
              /\ bridge_info_received' =
                   IF islist(r.v) THEN bridge_info_received \cup {bridge_name}
                   ELSE bridge_info_received
              /\ stdout' = stdout \o IF islist(r.v) /\ bridge_name \notin bridge_info_received
                           THEN << Line("Received device list", bridge_name, Len(r.v.items)) >>
                           ELSE << >>
              /\ UNCHANGED availability
         [] Len(topic_parts) >= 3 /\ topic_parts[3] = sfx_availability ->
              LET device_name == topic_parts[2]
                  known == Get(availability, bridge_name, EmptyDict)
              IN
              /\ availability' =
                   IF isdict(r.v)
                   THEN Put(availability, bridge_name,
                            Put(known, device_name,
                                IF "state" \in DOMAIN r.v.f THEN r.v.f["state"].s ELSE unknown))
                   ELSE Put(availability, bridge_name, known)
              \* data.get on a list or a number: AttributeError, caught and reported
              /\ stdout' = stdout \o IF isdict(r.v) THEN << >> ELSE error
              /\ UNCHANGED << devices, bridge_info_received >>
         [] OTHER ->
              /\ stdout' = stdout
              /\ UNCHANGED collector_fields
    /\ UNCHANGED << device_count, coordinator_devices, coordinator_ieee_addresses,
                    ieee_to_friendly_name, offline_devices, retained_availability,
                    health_devices >>

(* ------------- z2m-get-devices.py: collect_devices and main ------------ *)
\* the subscriptions of collect_devices: {bridge}/bridge/devices, {bridge}/+/availability
\* and, when scanning for stranded devices, {bridge}/#
subscribed(topic, scan_stranded) ==
    LET topic_parts == topic_split[topic] IN
    /\ topic_parts[1] \in COORDINATORS
    /\ \/ scan_stranded
       \/ topic_parts = << topic_parts[1], bridge, sfx_devices >>
       \/ (Len(topic_parts) = 3 /\ topic_parts[3] = sfx_availability)

\* the messages delivered through the subscriptions made without --stranded
MessagesNoScan == { msg \in Messages : subscribed(msg[1], FALSE) }

CollectorStart(at, thread, outcome) ==
    /\ script = "z2m-get-devices"
    /\ pc = at
    /\ loop = thread
    /\ connection = outcome
    /\ on_message_cb = "on_message"
    /\ delivered = 0
    /\ raised = "none"
    /\ stdout = << >>
    \* --remove-stranded implies --stranded
    /\ args \in { a \in [stranded : BOOLEAN, remove_stranded : BOOLEAN] :
                    a.remove_stranded => a.stranded }
    /\ device_count = 0
    /\ coordinator_devices = EmptyDict
    /\ coordinator_ieee_addresses = EmptyDict
    /\ ieee_to_friendly_name = EmptyDict
    /\ offline_devices = [c \in COORDINATORS |-> {}]
    /\ retained_availability = [c \in COORDINATORS |-> EmptyDict]
    /\ all_device_topics = [c \in COORDINATORS |-> {}]
    /\ health_devices = EmptyDict
    /\ stranded_devices = EmptyDict
    /\ stranded_health = EmptyDict
    /\ topics_to_clear = << >>
    /\ published = << >>
    /\ devices = EmptyDict
    /\ availability = EmptyDict
    /\ bridge_info_received = {}
    /\ merged = << >>
    /\ iter = NoIter
    /\ NoOtherScript

\* the state when collect_devices starts to wait on an accepted connection
CollectorInit == CollectorStart("collect_devices", "running", "accepted")

\* the network thread, started in collect_devices and stopped only by disconnect,
\* delivers one message to self.on_message
CollectorDeliverMsg(topic, payload) ==
    /\ script = "z2m-get-devices"
    /\ loop = "running"
    /\ on_message_cb = "on_message"
    /\ delivered < MaxMsgs
    /\ collector_on_message(topic, payload)
    /\ delivered' = delivered + 1
    /\ UNCHANGED << script, other_scripts, connection, pc, on_message_cb, args, main_locals, collector_locals >>

CollectorDeliver ==
    /\ script = "z2m-get-devices"
    /\ \E msg \in (IF args.stranded THEN Messages ELSE MessagesNoScan) :
         CollectorDeliverMsg(msg[1], msg[2])

\* config defines Z2M_TIMEOUT and the wait loop of collect_devices ends (the timeout, or
\* every bridge's list plus the extra sleep); the network thread keeps running
CollectorWaitOver ==
    /\ script = "z2m-get-devices"
    /\ pc = "collect_devices"
    /\ pc' = "get_merged_devices"
    /\ UNCHANGED << script, other_scripts, connection, loop, on_message_cb, delivered, raised, stdout, args,
                    monitor_globals, main_locals, collector_fields, collector_locals >>

\* timeout = config.Z2M_TIMEOUT with a config module that defines no Z2M_TIMEOUT (the
\* config.py next to the script defines none): AttributeError, caught in
\* collect_devices, which returns False; main prints the failure, disconnects, exits 1
CollectorNoTimeout ==
    /\ script = "z2m-get-devices"
    /\ pc = "collect_devices"
    /\ pc' = "failed"
    /\ loop' = "stopped"
    /\ stdout' = stdout \o << Line("Error connecting to MQTT broker", EmptyStr, 0),
                              Line("Failed to collect device information", EmptyStr, 0) >>
    /\ UNCHANGED << script, other_scripts, connection, on_message_cb, delivered, raised, args, monitor_globals,
                    main_locals, collector_fields, collector_locals >>

\* Ctrl-C while collect_devices waits: KeyboardInterrupt is no Exception, so it
\* passes collect_devices and is caught in main, which prints the cancellation,
\* disconnects in the finally clause and exits with status 1
CollectorInterrupt ==
    /\ script = "z2m-get-devices"
    /\ pc = "collect_devices"
    /\ pc' = "cancelled"
    /\ loop' = "stopped"
    /\ stdout' = stdout \o << Line("Operation cancelled by user", EmptyStr, 0) >>
    /\ UNCHANGED << script, other_scripts, connection, on_message_cb, delivered, raised, args, monitor_globals,
                    main_locals, collector_fields, collector_locals >>

\* device.get raises AttributeError on an entry that is no dict
has_bad_entry(device_list) == \E i \in DOMAIN device_list : ~isdict(device_list[i])

RECURSIVE merged_of(_, _, _)
\* the entries get_merged_devices appends for one bridge
merged_of(bridge_name, device_list, bridge_availability) ==
    IF device_list = << >> THEN << >>
    ELSE LET device == Head(device_list)
             friendly_name == IF "friendly_name" \in DOMAIN device.f
                              THEN device.f["friendly_name"].s ELSE Unknown
             rest == merged_of(bridge_name, Tail(device_list), bridge_availability)
         IN IF friendly_name = Coordinator THEN rest
            ELSE << [bridge |-> bridge_name, friendly_name |-> friendly_name,
                     availability |-> Get(bridge_availability, friendly_name, unknown)] >>
                 \o rest

RECURSIVE concat(_, _)
concat(f, order) ==
    IF order = << >> THEN << >> ELSE f[Head(order)] \o concat(f, Tail(order))

\* an exception reaches main: "Unexpected error", sys.exit(1), disconnect
CollectorFail ==
    /\ pc' = "failed"
    /\ loop' = "stopped"
    /\ stdout' = stdout \o << Line("Unexpected error", EmptyStr, 0) >>

\* devices = collector.get_merged_devices(); print_devices
CollectorGetMerged ==
    /\ script = "z2m-get-devices"
    /\ pc = "get_merged_devices"
    /\ IF \E b \in DOMAIN devices : has_bad_entry(devices[b])
       THEN /\ CollectorFail
            /\ UNCHANGED merged
       ELSE /\ \E order \in Orders(DOMAIN devices) :
                 merged' = concat([b \in DOMAIN devices |->
                                     merged_of(b, devices[b],
                                               Get(availability, b, EmptyDict))], order)
            /\ pc' = IF args.stranded THEN "get_stranded_devices" ELSE "done"
            /\ loop' = IF args.stranded THEN loop ELSE "stopped"
            /\ stdout' = stdout \o << Line("Total devices", EmptyStr, Len(merged')) >>
    /\ UNCHANGED << script, other_scripts, connection, on_message_cb, delivered, raised, args, monitor_globals,
                    main_locals, collector_fields, iter >>

\* known_devices of get_stranded_devices
known_devices(device_list) ==
    { device_list[i].f["friendly_name"].s :
        i \in { j \in DOMAIN device_list :
                  /\ truthy(dictget(device_list[j], "friendly_name"))
                  /\ dictget(device_list[j], "friendly_name").s # Coordinator } }

\* the topic names get_stranded_devices keeps for one bridge
stranded_topics(seen_topics, known) == { t \in seen_topics : t \notin known }

\* one pass of the loop `for bridge, seen_topics in self.all_device_topics.items()`
CollectorGetStranded ==
    /\ script = "z2m-get-devices"
    /\ pc = "get_stranded_devices"
    /\ LET keys == { c \in COORDINATORS : all_device_topics[c] # {} }
           it == IF iter.active THEN iter
                 ELSE [active |-> TRUE, todo |-> keys, size |-> Cardinality(keys)]
       IN
       IF Cardinality(keys) # it.size
       THEN \* RuntimeError: dictionary changed size during iteration
            /\ CollectorFail
            /\ UNCHANGED << iter, stranded_devices >>
       ELSE IF it.todo = {}
       THEN /\ iter' = NoIter
            /\ IF stranded_devices # EmptyDict /\ args.remove_stranded
               THEN pc' = "remove_stranded_devices" /\ loop' = loop
               ELSE pc' = "done" /\ loop' = "stopped"
            /\ stdout' = stdout \o << Line("Found stranded device(s)", EmptyStr,
                                 total(stranded_devices)) >>
            /\ UNCHANGED stranded_devices
       ELSE \E bridge_name \in it.todo :
              /\ iter' = [it EXCEPT !.todo = @ \ {bridge_name}]
              /\ IF bridge_name \notin DOMAIN devices
                 THEN /\ UNCHANGED << pc, loop, stdout, stranded_devices >>
                 ELSE IF has_bad_entry(devices[bridge_name])
                 THEN /\ CollectorFail
                      /\ UNCHANGED stranded_devices
                 ELSE /\ UNCHANGED << pc, loop, stdout >>
                      /\ LET names == stranded_topics(all_device_topics[bridge_name],
                                                      known_devices(devices[bridge_name]))
                         IN IF names = {} THEN UNCHANGED stranded_devices
                            ELSE \E order \in Orders(names) :
                                   stranded_devices' =
                                     Put(stranded_devices, bridge_name,
                                         [ i \in DOMAIN order |->
                                             [device |-> order[i],
                                              availability |->
                                                Get(Get(availability, bridge_name, EmptyDict),
                                                    order[i], EmptyStr)] ])
    /\ UNCHANGED << script, other_scripts, connection, on_message_cb, delivered, raised, args, monitor_globals,
                    stranded_health, topics_to_clear, published, collector_fields, merged >>

\* valid_prefixes of remove_stranded_devices
collector_valid_prefixes(stranded) ==
    UNION { { Slash(c, stranded[c][i].device) \o <<"/">>, Slash(c, stranded[c][i].device) } :
            << c, i >> \in { ci \in COORDINATORS \X (1..Cardinality(DeviceNames)) :
                              ci[1] \in DOMAIN stranded /\ ci[2] \in DOMAIN stranded[ci[1]] } }

\* the test of collect_topics in remove_stranded_devices
collector_matches_prefix(topic, prefix) == topic = prefix \/ startswith(topic, prefix)

\* self.client.on_message = collect_topics; subscribe
CollectorRemoveStart ==
    /\ script = "z2m-get-devices"
    /\ pc = "remove_stranded_devices"
    /\ on_message_cb' = "collect_topics"
    /\ pc' = "remove_listen"
    /\ UNCHANGED << script, other_scripts, connection, loop, delivered, raised, stdout, args, monitor_globals,
                    main_locals, collector_fields, collector_locals >>

\* the network thread delivers one message of the discovery window to collect_topics
CollectorCollectMsg(topic) ==
    /\ script = "z2m-get-devices"
    /\ pc = "remove_listen"
    /\ loop = "running"
    /\ on_message_cb = "collect_topics"
    /\ delivered < MaxMsgs
    /\ topics_to_clear' =
         IF \E prefix \in collector_valid_prefixes(stranded_devices) :
              collector_matches_prefix(topic, prefix)
         THEN Append(topics_to_clear, topic)
         ELSE topics_to_clear
    /\ delivered' = delivered + 1
    /\ Returned(<< >>)
    /\ UNCHANGED << script, other_scripts, connection, pc, on_message_cb, args, monitor_globals, stranded_devices,
                    stranded_health, published, collector_fields, collector_locals >>

\* time.sleep(2) returns; on_message restored; unsubscribe; the tombstones; disconnect
CollectorRemoveWith(outcome) ==
    /\ script = "z2m-get-devices"
    /\ pc = "remove_listen"
    /\ on_message_cb' = "on_message"
    /\ published' = sent(topics_to_clear, outcome)
    /\ stdout' = stdout \o << Line("Cleared retained message(s)", EmptyStr, Len(topics_to_clear)) >>
    /\ pc' = "done"
    /\ loop' = "stopped"
    /\ UNCHANGED << script, other_scripts, connection, delivered, raised, args, monitor_globals, stranded_devices,
                    stranded_health, topics_to_clear, collector_fields, collector_locals >>

CollectorCollect == \E topic \in Topics : CollectorCollectMsg(topic)

CollectorRemove ==
    \E outcome \in [DOMAIN topics_to_clear -> PublishOutcomes] : CollectorRemoveWith(outcome)

CollectorNext ==
    \/ CollectorDeliver
    \/ CollectorNoTimeout
    \/ CollectorWaitOver
    \/ CollectorGetMerged
    \/ CollectorGetStranded
    \/ CollectorRemoveStart
    \/ CollectorCollect
    \/ CollectorRemove

(* ---------------------- connecting to the broker ----------------------- *)
\* client.connect returns and the broker accepts the session, or the broker refuses
\* it with a non-zero CONNACK result code, or client.connect raises (no broker)
ConnectOutcomes == { "accepted", "rejected", "unreachable" }

\* zigbee-offline-monitor.py: client.connect, client.loop_start and on_connect.
\* on_connect never looks at rc; no try statement encloses client.connect.
MonitorConnect(outcome) ==
    /\ script = "zigbee-offline-monitor"
    /\ pc = "connect"
    /\ connection' = outcome
    /\ CASE outcome = "accepted" ->
              pc' = "window" /\ loop' = "running" /\ UNCHANGED stdout
         [] outcome = "rejected" ->
              \* the subscriptions of on_connect reach no session; the network
              \* thread goes on trying to reconnect until loop_stop
              pc' = "window" /\ loop' = "reconnecting" /\ UNCHANGED stdout
         [] outcome = "unreachable" ->
              \* the OSError ends the process with a traceback
              /\ pc' = "failed"
              /\ loop' = "stopped"
              /\ stdout' = stdout \o << Line("OSError", EmptyStr, 0) >>
    /\ UNCHANGED << script, other_scripts, on_message_cb, delivered, raised, args, monitor_globals,
                    main_locals, collector_fields, collector_locals >>

\* z2m-get-devices.py: collect_devices up to the wait loop, and on_connect
CollectorConnect(outcome) ==
    /\ script = "z2m-get-devices"
    /\ pc = "connect"
    /\ connection' = outcome
    /\ CASE outcome = "accepted" ->
              /\ pc' = "collect_devices"
              /\ loop' = "running"
              /\ raised' = raised
              /\ stdout' = stdout \o << Line("Connected to MQTT broker", EmptyStr, 0) >>
         [] outcome = "rejected" ->
              \* sys.exit(1) in on_connect raises SystemExit in the network thread,
              \* which ends that thread only; the main thread goes on waiting
              /\ pc' = "collect_devices"
              /\ loop' = "dead"
              /\ raised' = "SystemExit"
              /\ stdout' = stdout \o << Line("Failed to connect to MQTT broker", EmptyStr, 0) >>
         [] outcome = "unreachable" ->
              \* caught in collect_devices, which returns False; main exits with 1
              /\ pc' = "failed"
              /\ loop' = "stopped"
              /\ raised' = raised
              /\ stdout' = stdout \o << Line("Error connecting to MQTT broker", EmptyStr, 0),
                                        Line("Failed to collect device information", EmptyStr, 0) >>
    /\ UNCHANGED << script, other_scripts, on_message_cb, delivered, args, monitor_globals,
                    main_locals, collector_fields, collector_locals >>

(* ------------------ z2m-get-offline.py: the scan ----------------------- *)
IsOfflineScan == script = "z2m-get-offline"

\* no state of the two reconciliation scripts besides offline_devices
NoReconciliation ==
    /\ device_count = 0
    /\ coordinator_devices = EmptyDict
    /\ coordinator_ieee_addresses = EmptyDict
    /\ ieee_to_friendly_name = EmptyDict
    /\ retained_availability = EmptyDict
    /\ all_device_topics = EmptyDict
    /\ health_devices = EmptyDict
    /\ stranded_devices = EmptyDict
    /\ stranded_health = EmptyDict
    /\ topics_to_clear = << >>
    /\ published = << >>
    /\ devices = EmptyDict
    /\ availability = EmptyDict
    /\ bridge_info_received = {}
    /\ merged = << >>
    /\ iter = NoIter

\* the subscriptions zigbee11/+/availability and zigbee15/+/availability
availability_topics ==
    { topic \in Topics : /\ Len(topic_split[topic]) = 3
                         /\ topic_split[topic][1] \in COORDINATORS
                         /\ topic_split[topic][3] = sfx_availability }

ScanMessages == { msg \in Messages : msg[1] \in availability_topics }

\* the entry on_message appends for an offline device
OfflineEntry(bridge_name, device_name) ==
    [bridge |-> bridge_name, device |-> device_name, status |-> offline]

\* ZigbeeOfflineMonitor.on_message: self.offline_devices after the message; a
\* payload that does not decode, is not JSON or is not an object raises inside
\* the try block and is reported on stderr only
offline_devices_after(list, topic, payload) ==
    LET topic_parts == topic_split[topic]
        data == loads(payload)
    IN  IF /\ Len(topic_parts) >= 2
           /\ data.exc = "none"
           /\ isdict(data.v)
           /\ dictget(data.v, "state") = JStr(offline)
        THEN Append(list, OfflineEntry(topic_parts[1], topic_parts[2]))
        ELSE list

\* the lines print_offline_devices writes
print_offline_devices(list, output_format) ==
    IF list = << >> THEN << Line("No offline devices found.", EmptyStr, 0) >>
    ELSE IF output_format = "json" THEN << Line("json", EmptyStr, list) >>
    ELSE IF output_format = "csv"
         THEN << Line("Bridge,Device,Status", EmptyStr, 0) >>
              \o [i \in 1..Len(list) |-> Line("csv row", list[i].bridge, list[i].device)]
    ELSE << Line("Found offline devices:", EmptyStr, Len(list)) >>
         \o [i \in 1..Len(list) |-> Line("table row", list[i].bridge, list[i].device)]

\* scan_for_offline_devices is asleep: connected, subscribed, network thread running
OfflineScanInit ==
    /\ script = "z2m-get-offline"
    /\ pc = "scan"
    /\ loop = "running"
    /\ connection = "accepted"
    /\ on_message_cb = "on_message"
    /\ delivered = 0
    /\ raised = "none"
    /\ stdout = << >>
    /\ args \in [email : BOOLEAN, quiet : BOOLEAN, format : {"table", "csv", "json"}]
    /\ offline_devices = << >>
    /\ NoReconciliation
    /\ requests = << >>
    /\ event_definitions = << >>
    /\ last_disabled_txt = None
    /\ historical_clients = << >>
    /\ active_clients = << >>
    /\ filtered_devices = << >>
    /\ devices_to_delete = << >>
    /\ history = EmptyDict

\* the network thread delivers one availability message to on_message
OfflineScanDeliverMsg(topic, payload) ==
    /\ script = "z2m-get-offline"
    /\ pc = "scan"
    /\ delivered < MaxMsgs
    /\ delivered' = delivered + 1
    /\ offline_devices' = offline_devices_after(offline_devices, topic, payload)
    /\ stdout' = IF offline_devices' # offline_devices
                 THEN Append(stdout, Line("Found offline device", topic_split[topic][1],
                                          topic_split[topic][2]))
                 ELSE stdout
    /\ history' = Put(history, topic, payload)
    /\ UNCHANGED << script, pc, loop, connection, on_message_cb, raised, args,
                    device_count, coordinator_devices, coordinator_ieee_addresses,
                    ieee_to_friendly_name, retained_availability, all_device_topics,
                    health_devices, main_locals, collector_fields, collector_locals,
                    requests, graylog_state, unifi_state >>

OfflineScanDeliver == \E msg \in ScanMessages : OfflineScanDeliverMsg(msg[1], msg[2])

\* time.sleep(timeout) returns: disconnect, the report, the e-mail, the exit status
OfflineScanOver ==
    /\ script = "z2m-get-offline"
    /\ pc = "scan"
    /\ loop' = "stopped"
    /\ \E mail \in {"sent", "failed"} :
         stdout' = stdout
            \o (IF args.quiet THEN << >>
                ELSE print_offline_devices(offline_devices, args.format))
            \o (IF args.email /\ offline_devices # << >> /\ mail = "sent"
                THEN << Line("Email notification sent", EmptyStr, 0) >> ELSE << >>)
            \o (IF offline_devices = << >> /\ ~args.quiet
                THEN << Line("All devices are online.", EmptyStr, 0) >> ELSE << >>)
    /\ pc' = IF offline_devices # << >> THEN "exit_1" ELSE "exit_0"
    /\ UNCHANGED << script, other_scripts, connection, on_message_cb, delivered, raised,
                    args, monitor_globals, main_locals, collector_fields,
                    collector_locals >>

\* Ctrl-C during the sleep: the finally clause disconnects, main exits with 1
OfflineScanInterrupt ==
    /\ script = "z2m-get-offline"
    /\ pc = "scan"
    /\ loop' = "stopped"
    /\ pc' = "cancelled"
    /\ UNCHANGED << script, other_scripts, connection, on_message_cb, delivered, raised,
                    stdout, args, monitor_globals, main_locals, collector_fields,
                    collector_locals >>

OfflineScanNext == OfflineScanDeliver \/ OfflineScanOver \/ OfflineScanInterrupt

(* ------------------- graylog-maintenance.py ---------------------------- *)
IsMaintenance == script = "graylog-maintenance"

\* the ids of the server's event definitions
IdA == <<"6", "a">>
IdB == <<"6", "b">>
IdC == <<"6", "c">>
EventIds == << IdA, IdB, IdC >>

ENABLED_ == "ENABLED"
DISABLED == "DISABLED"
SYSTEM_NOTIFICATION_EVENT == "SYSTEM_NOTIFICATION_EVENT"
DEFAULT == "DEFAULT"

\* the lists GET /events/definitions can return: no definition at all, or the
\* three definitions, each enabled or disabled, each a user's or the system's
DefinitionLists ==
    { << >> } \cup
    { [i \in 1..Len(EventIds) |-> [id |-> EventIds[i], state |-> st[i], scope |-> sc[i]]] :
        st \in [1..Len(EventIds) -> {ENABLED_, DISABLED}],
        sc \in [1..Len(EventIds) -> {DEFAULT, SYSTEM_NOTIFICATION_EVENT}] }

\* the elements of a list whose index is kept, in order
RECURSIVE Sel(_, _, _)
Sel(list, keep, from) ==
    IF from > Len(list) THEN << >>
    ELSE (IF keep[from] THEN << list[from] >> ELSE << >>) \o Sel(list, keep, from + 1)

RECURSIVE Join(_, _)
\* the concatenation of the strings of a list
Join(list, from) ==
    IF from > Len(list) THEN << >> ELSE list[from] \o Join(list, from + 1)

RECURSIVE SplitLines(_, _, _)
SplitLines(text, cur, acc) ==
    IF text = << >> THEN (IF cur = << >> THEN acc ELSE Append(acc, cur))
    ELSE IF Head(text) = "\n" THEN SplitLines(Tail(text), << >>, Append(acc, cur))
    ELSE SplitLines(Tail(text), Append(cur, Head(text)), acc)

\* str.splitlines() of a text whose only line boundary is "\n"
splitlines(text) == SplitLines(text, << >>, << >>)

\* mute_events: what the loop does with one definition
mute_step(event) ==
    IF event.state = DISABLED THEN "already disabled"
    ELSE IF event.scope = SYSTEM_NOTIFICATION_EVENT THEN "system event"
    ELSE "unschedule"

\* mute_events writing no id to the state file
disabled_lines_none(defs) == << >>

\* mute_events: the text written to last_disabled.txt, one line per definition
\* found DISABLED
disabled_lines(defs) ==
    Join([i \in 1..Len(defs) |-> IF mute_step(defs[i]) = "already disabled"
                                  THEN defs[i].id \o << "\n" >> ELSE << >>], 1)

\* unmute_events: what the loop does with one definition
unmute_step(event, last_disabled) ==
    IF \E i \in DOMAIN last_disabled : last_disabled[i] = event.id
    THEN "keeping disabled"
    ELSE IF event.scope = SYSTEM_NOTIFICATION_EVENT THEN "system event"
    ELSE "schedule"

\* the PUT requests of one run in the order puts, with the answer each one got
put_requests(defs, step, op, outcome) ==
    Sel([i \in 1..Len(defs) |-> [op |-> op, id |-> defs[i].id, status |-> outcome[i]]],
        [i \in 1..Len(defs) |-> step[i] = op], 1)

\* the server after the requests of a run: a request that succeeded has set the state
definitions_after(defs, step, op, outcome, state) ==
    [i \in 1..Len(defs) |->
        IF step[i] = op /\ outcome[i] = 200 THEN [defs[i] EXCEPT !.state = state]
        ELSE defs[i]]

\* the line printed for every definition, then the summary counts
run_lines(defs, step, op, outcome) ==
    << Line("Processing event definitions...", EmptyStr, Len(defs)) >>
    \o [i \in 1..Len(defs) |->
          Line(IF step[i] # op THEN step[i]
               ELSE IF outcome[i] = 200 THEN "done" ELSE "Failed", defs[i].id, 0)]
    \o << Line("Summary", EmptyStr,
               [done |-> Cardinality({i \in 1..Len(defs) : step[i] = op /\ outcome[i] = 200}),
                skipped |-> Cardinality({i \in 1..Len(defs) : step[i] # op}),
                failed |-> Cardinality({i \in 1..Len(defs) : step[i] = op /\ outcome[i] # 200})]) >>

\* the answers the PUT requests of a run can get: one for every request puts
Outcomes(defs, step, op) ==
    { outcome \in [1..Len(defs) -> {200, 500}] :
        \A i \in 1..Len(defs) : step[i] # op => outcome[i] = 200 }

\* the record of a finished run
Ran(mode, get, found, puts, left) ==
    [mode |-> mode, get |-> get, found |-> found, requests |-> puts, left |-> left]

\* a shell in which graylog-maintenance.py is run again and again
MaintenanceInit ==
    /\ script = "graylog-maintenance"
    /\ pc = "shell"
    /\ loop = "none"
    /\ connection = "none"
    /\ on_message_cb = "none"
    /\ delivered = 0
    /\ raised = "none"
    /\ stdout = << >>
    /\ args = [mute |-> FALSE, unmute |-> FALSE]
    /\ offline_devices = EmptyDict
    /\ NoReconciliation
    /\ requests = << >>
    /\ event_definitions \in DefinitionLists
    /\ last_disabled_txt = None
    /\ historical_clients = << >>
    /\ active_clients = << >>
    /\ filtered_devices = << >>
    /\ devices_to_delete = << >>
    /\ history = << >>

MaintenanceFrame ==
    UNCHANGED << script, loop, connection, on_message_cb, delivered, raised,
                 monitor_globals, main_locals, collector_fields, collector_locals,
                 unifi_state >>

\* one run with --mute: get is the status of the GET, outcome the status of the
\* PUT puts for each definition
MuteEvents(get, outcome) ==
    /\ script = "graylog-maintenance"
    /\ Len(history) < MaxRuns
    /\ args' = [mute |-> TRUE, unmute |-> FALSE]
    /\ LET defs == event_definitions
           step == [i \in 1..Len(defs) |-> mute_step(defs[i])]
           puts == put_requests(defs, step, "unschedule", outcome)
           left == definitions_after(defs, step, "unschedule", outcome, DISABLED)
       IN  IF get # 200
           THEN /\ stdout' = << Line("Failed to get event definitions", EmptyStr, get) >>
                /\ pc' = "exit_1"
                /\ requests' = << >>
                /\ history' = Append(history, Ran("mute", get, << >>, << >>, defs))
                /\ UNCHANGED graylog_state
           ELSE IF defs = << >>
           THEN /\ stdout' = << Line("No event definitions found", EmptyStr, 0) >>
                /\ pc' = "exit_0"
                /\ requests' = << >>
                /\ history' = Append(history, Ran("mute", get, defs, << >>, defs))
                /\ UNCHANGED graylog_state
           ELSE /\ outcome \in Outcomes(defs, step, "unschedule")
                /\ last_disabled_txt' = disabled_lines(defs)
                /\ requests' = puts
                /\ event_definitions' = left
                /\ stdout' = run_lines(defs, step, "unschedule", outcome)
                /\ pc' = IF \A i \in DOMAIN puts : puts[i].status = 200
                         THEN "exit_0" ELSE "exit_1"
                /\ history' = Append(history, Ran("mute", get, defs, puts, left))
    /\ MaintenanceFrame

\* one run with --unmute
UnmuteEvents(get, outcome) ==
    /\ script = "graylog-maintenance"
    /\ Len(history) < MaxRuns
    /\ args' = [mute |-> FALSE, unmute |-> TRUE]
    /\ LET defs == event_definitions
           last_disabled == splitlines(last_disabled_txt)
           step == [i \in 1..Len(defs) |-> unmute_step(defs[i], last_disabled)]
           puts == put_requests(defs, step, "schedule", outcome)
           left == definitions_after(defs, step, "schedule", outcome, ENABLED_)
       IN  IF last_disabled_txt = None
           THEN /\ stdout' = << Line("Error: last_disabled.txt not found", EmptyStr, 0) >>
                /\ pc' = "exit_1"
                /\ requests' = << >>
                /\ history' = Append(history, Ran("unmute", 0, << >>, << >>, defs))
                /\ UNCHANGED graylog_state
           ELSE IF get # 200
           THEN /\ stdout' = << Line("Found previously disabled events to preserve",
                                     EmptyStr, Len(last_disabled)),
                                Line("Failed to get event definitions", EmptyStr, get) >>
                /\ pc' = "exit_1"
                /\ requests' = << >>
                /\ history' = Append(history, Ran("unmute", get, << >>, << >>, defs))
                /\ UNCHANGED graylog_state
           ELSE IF defs = << >>
           THEN /\ stdout' = << Line("Found previously disabled events to preserve",
                                     EmptyStr, Len(last_disabled)),
                                Line("No event definitions found", EmptyStr, 0) >>
                /\ pc' = "exit_0"
                /\ requests' = << >>
                /\ history' = Append(history, Ran("unmute", get, defs, << >>, defs))
                /\ UNCHANGED graylog_state
           ELSE /\ outcome \in Outcomes(defs, step, "schedule")
                /\ last_disabled_txt' = None
                /\ requests' = puts
                /\ event_definitions' = left
                /\ stdout' = << Line("Found previously disabled events to preserve",
                                     EmptyStr, Len(last_disabled)) >>
                             \o run_lines(defs, step, "schedule", outcome)
                             \o << Line("Cleanup: Removed last_disabled.txt", EmptyStr, 0) >>
                /\ pc' = IF \A i \in DOMAIN puts : puts[i].status = 200
                         THEN "exit_0" ELSE "exit_1"
                /\ history' = Append(history, Ran("unmute", get, defs, puts, left))
    /\ MaintenanceFrame

\* one run with both flags (an error, status 1) or with none (the usage text)
MaintenanceUsage ==
    /\ script = "graylog-maintenance"
    /\ Len(history) < MaxRuns
    /\ \E both \in BOOLEAN :
         /\ args' = [mute |-> both, unmute |-> both]
         /\ stdout' = << Line(IF both THEN "Error: Cannot use both --mute and --unmute"
                              ELSE "Usage", EmptyStr, 0) >>
         /\ pc' = IF both THEN "exit_1" ELSE "exit_0"
    /\ requests' = << >>
    /\ history' = Append(history, Ran("usage", 0, << >>, << >>, event_definitions))
    /\ UNCHANGED graylog_state
    /\ MaintenanceFrame

AllOutcomes == [1..Len(EventIds) -> {200, 500}]

MaintenanceNext ==
    \/ \E get \in {200, 500}, outcome \in AllOutcomes : MuteEvents(get, outcome)
    \/ \E get \in {200, 500}, outcome \in AllOutcomes : UnmuteEvents(get, outcome)
    \/ MaintenanceUsage

(* ---------------- unifi-delete-offline-devices.py ---------------------- *)
IsUnifi == script = "unifi-delete-offline-devices"

\* timestamps count half days: datetime.now() and the length of a day
Now == 9
Day == 2

\* a last_seen timestamp
Ts(n) == [t |-> "number", v |-> n]

\* the last_seen values a client record can hold: none, 0, and times that are
\* two days, a day and a half, half a day and no time before now
LastSeens == { None, Ts(0), Ts(Now - 2 * Day), Ts(Now - Day - 1), Ts(Now - 1), Ts(Now) }

MacA == <<"a", "a", ":", "0", "1">>
MacB == <<"a", "a", ":", "0", "2">>
Macs == << MacA, MacB >>

\* the controller's answer to rest/user: no client, the first, or both, each
\* with or without a name and with any last_seen
HistoricalLists ==
    UNION { { [i \in 1..n |-> [mac |-> Macs[i], name |-> name[i], hostname |-> None,
                               last_seen |-> seen[i]]] :
                name \in [1..n -> {JStr(Plug), None}], seen \in [1..n -> LastSeens] } :
            n \in 0..Len(Macs) }

\* the controller's answer to stat/sta: the clients connected now
ActiveLists ==
    { << >>, << [mac |-> MacA, last_seen |-> Ts(Now)] >>,
      << [mac |-> MacB, last_seen |-> Ts(Now)] >>,
      << [mac |-> MacA, last_seen |-> Ts(Now)], [mac |-> MacB, last_seen |-> Ts(Now)] >> }

\* str.lower() on the letters that occur
lower(str) ==
    [i \in 1..Len(str) |->
        CASE str[i] = "P" -> "p" [] str[i] = "L" -> "l" [] str[i] = "U" -> "u"
          [] str[i] = "A" -> "a" [] str[i] = "Y" -> "y" [] OTHER -> str[i]]

\* str.replace("-", ":")
replace_dash(str) == [i \in 1..Len(str) |-> IF str[i] = "-" THEN ":" ELSE str[i]]

\* a in b for two strings
contains(b, a) == \E i \in 1..(Len(b) - Len(a) + 1) : SubSeq(b, i, i + Len(a) - 1) = a

\* last_seen_days_ago: None without a timestamp, else timedelta.days
last_seen_days_ago(last_seen) ==
    IF ~truthy(last_seen) \/ last_seen.v = 0 THEN None
    ELSE Ts((Now - last_seen.v) \div Day)

\* if device.get("last_seen")
has_last_seen(device) == device.last_seen.t = "number" /\ device.last_seen.v # 0

\* build_device_info
build_device_info(historical, active) ==
    [i \in 1..Len(historical) |->
        LET client == historical[i]
            is_online == \E j \in DOMAIN active : active[j].mac = client.mac
            active_data == active[CHOOSE j \in DOMAIN active : active[j].mac = client.mac]
        IN  [mac |-> client.mac,
             name |-> IF truthy(client.name) THEN client.name.s
                      ELSE IF truthy(client.hostname) THEN client.hostname.s
                      ELSE Unknown,
             is_online |-> is_online,
             status |-> IF is_online THEN "Online" ELSE "Offline",
             last_seen |-> IF is_online THEN active_data.last_seen ELSE client.last_seen]]

\* the test of filter_devices and of get_devices_to_delete: offline for more
\* than days_threshold days
over_threshold(device, days_threshold) ==
    /\ ~device.is_online
    /\ has_last_seen(device)
    /\ last_seen_days_ago(device.last_seen) # None
    /\ last_seen_days_ago(device.last_seen).v > days_threshold

\* filter_devices
filter_devices(list, name_filter, days_threshold) ==
    LET filtered == IF truthy(name_filter)
                    THEN SelectSeq(list, LAMBDA dev : contains(lower(dev.name), lower(name_filter.s)))
                    ELSE list
    IN  SelectSeq(filtered, LAMBDA dev :
            ~dev.is_online /\ (has_last_seen(dev) => over_threshold(dev, days_threshold)))

\* get_devices_to_delete deleting whatever the table shows
get_devices_to_delete_shown(list, days_threshold) == list

\* get_devices_to_delete
get_devices_to_delete(list, days_threshold) ==
    SelectSeq(list, LAMBDA dev : over_threshold(dev, days_threshold))

\* list.sort(key=lambda x: x.get("last_seen", 0), reverse=True) compares a
\* None key as soon as there are two elements: TypeError
sort_raises(list) == Len(list) >= 2 /\ \E i \in DOMAIN list : list[i].last_seen = None

RECURSIVE insert_desc(_, _)
\* the stable insertion of a device behind all devices with a key not smaller
insert_desc(list, dev) ==
    IF list = << >> THEN << dev >>
    ELSE IF Head(list).last_seen.v >= dev.last_seen.v
         THEN << Head(list) >> \o insert_desc(Tail(list), dev)
         ELSE << dev >> \o list

RECURSIVE sort_desc(_, _)
sort_desc(list, done) ==
    IF list = << >> THEN done ELSE sort_desc(Tail(list), insert_desc(done, Head(list)))

\* print_device_summary and print_device_table
print_device_table(list) ==
    << Line("Found devices that are offline for days+", EmptyStr, Len(list)) >>
    \o (IF Len(list) > 0
        THEN << Line("All devices shown are candidates for deletion", EmptyStr, Len(list)) >>
        ELSE << >>)
    \o << Line("Name MAC Status Current IP Last Seen", EmptyStr, 0) >>
    \o [i \in 1..Len(list) |-> Line("row", list[i].mac, list[i].status)]

\* delete_device: the MAC address as sent in the forget-sta command
mac_formatted(mac) == replace_dash(lower(mac))

\* main starts: nothing fetched, nothing printed
UnifiInit ==
    /\ script = "unifi-delete-offline-devices"
    /\ pc = "main"
    /\ loop = "none"
    /\ connection = "none"
    /\ on_message_cb = "none"
    /\ delivered = 0
    /\ raised = "none"
    /\ stdout = << >>
    /\ args \in [delete : BOOLEAN, days : {0, 1}, force : BOOLEAN,
                 filter : {None, JStr(<<"P", "L">>)}]
    /\ offline_devices = EmptyDict
    /\ NoReconciliation
    /\ requests = << >>
    /\ event_definitions = << >>
    /\ last_disabled_txt = None
    /\ historical_clients \in HistoricalLists
    /\ active_clients \in ActiveLists
    /\ filtered_devices = << >>
    /\ devices_to_delete = << >>
    /\ history = << >>

UnifiFrame ==
    UNCHANGED << script, loop, connection, on_message_cb, delivered, raised, args,
                 monitor_globals, main_locals, collector_fields, collector_locals,
                 graylog_state, historical_clients, active_clients, history >>

\* main from the login to the confirmation prompt or the first deletion
UnifiList(outcome) ==
    /\ script = "unifi-delete-offline-devices"
    /\ pc = "main"
    /\ requests' = requests
    /\ LET all_devices == build_device_info(historical_clients, active_clients)
           filtered == filter_devices(all_devices, args.filter, args.days)
           shown == sort_desc(filtered, << >>)
           to_delete == get_devices_to_delete(shown, args.days)
       IN  CASE outcome = "unreachable" ->
                  /\ pc' = "failed"
                  /\ stdout' = stdout
                  /\ UNCHANGED << filtered_devices, devices_to_delete >>
             [] outcome = "ok" /\ historical_clients = << >> ->
                  /\ pc' = "done"
                  /\ stdout' = << Line("No devices found.", EmptyStr, 0) >>
                  /\ UNCHANGED << filtered_devices, devices_to_delete >>
             [] outcome = "ok" /\ historical_clients # << >> /\ sort_raises(filtered) ->
                  /\ pc' = "failed"
                  /\ stdout' = stdout
                  /\ filtered_devices' = filtered
                  /\ UNCHANGED devices_to_delete
             [] OTHER ->
                  /\ filtered_devices' = shown
                  /\ devices_to_delete' = IF args.delete THEN to_delete ELSE << >>
                  /\ pc' = IF ~args.delete \/ to_delete = << >> THEN "done"
                           ELSE IF args.force THEN "perform_deletions"
                           ELSE "confirm_deletion"
                  /\ stdout' = print_device_table(shown)
                       \o (IF args.delete /\ to_delete = << >>
                           THEN << Line("No devices found that are offline for more than days",
                                        EmptyStr, 0) >>
                           ELSE << >>)
                       \o (IF args.delete /\ to_delete # << >> /\ ~args.force
                           THEN << Line("Found devices that will be deleted", EmptyStr,
                                        Len(to_delete)) >>
                                \o [i \in 1..Len(to_delete) |->
                                      Line("to delete", to_delete[i].mac,
                                           last_seen_days_ago(to_delete[i].last_seen))]
                           ELSE << >>)
    /\ UnifiFrame

\* confirm_deletion: the answer typed at the prompt
UnifiConfirm(confirm) ==
    /\ script = "unifi-delete-offline-devices"
    /\ pc = "confirm_deletion"
    /\ IF lower(confirm) = <<"y">>
       THEN pc' = "perform_deletions" /\ stdout' = stdout
       ELSE pc' = "done" /\ stdout' = Append(stdout, Line("Deletion cancelled.", EmptyStr, 0))
    /\ UNCHANGED << requests, filtered_devices, devices_to_delete >>
    /\ UnifiFrame

\* perform_deletions: delete_device for the next device of the list
UnifiDelete(outcome) ==
    /\ script = "unifi-delete-offline-devices"
    /\ pc = "perform_deletions"
    /\ Len(requests) < Len(devices_to_delete)
    /\ LET device == devices_to_delete[Len(requests) + 1]
       IN  /\ requests' = Append(requests, [cmd |-> "forget-sta",
                                            macs |-> << mac_formatted(device.mac) >>,
                                            rc |-> outcome])
           /\ CASE outcome = "ok" ->
                     /\ stdout' = Append(stdout, Line("Deleted", device.mac, 0))
                     /\ pc' = pc
                [] outcome = "error" ->
                     /\ stdout' = Append(stdout, Line("Failed to delete", device.mac, 0))
                     /\ pc' = pc
                [] OTHER ->
                     \* session.post raises: "Error connecting to UniFi controller"
                     /\ stdout' = stdout
                     /\ pc' = "failed"
    /\ UNCHANGED << filtered_devices, devices_to_delete >>
    /\ UnifiFrame

\* perform_deletions: the list is through
UnifiDeleted ==
    /\ script = "unifi-delete-offline-devices"
    /\ pc = "perform_deletions"
    /\ Len(requests) = Len(devices_to_delete)
    /\ pc' = "done"
    /\ stdout' = Append(stdout, Line("Deletion complete", EmptyStr,
          [deleted |-> Cardinality({i \in DOMAIN requests : requests[i].rc = "ok"}),
           failed |-> Cardinality({i \in DOMAIN requests : requests[i].rc # "ok"})]))
    /\ UNCHANGED << requests, filtered_devices, devices_to_delete >>
    /\ UnifiFrame

UnifiNext ==
    \/ \E outcome \in {"ok", "unreachable"} : UnifiList(outcome)
    \/ \E confirm \in {<<"y">>, <<"Y">>, <<"n">>, << >>} : UnifiConfirm(confirm)
    \/ \E outcome \in {"ok", "error", "unreachable"} : UnifiDelete(outcome)
    \/ UnifiDeleted

(* --------------------------- specification ----------------------------- *)
Init == MonitorInit \/ CollectorInit

Next == MonitorNext \/ CollectorNext

Spec == Init /\ [][Next]_vars

\* a run of zigbee-offline-monitor.py alone
SpecMonitor == MonitorInit /\ [][MonitorNext]_vars

\* a run of z2m-get-devices.py alone
SpecCollector == CollectorInit /\ [][CollectorNext]_vars

\* the runs of both scripts up to their report
ReportNext ==
    \/ MonitorDeliver
    \/ MonitorLoopStop
    \/ MonitorClassify
    \/ CollectorDeliver
    \/ CollectorNoTimeout
    \/ CollectorWaitOver
    \/ CollectorGetMerged
    \/ CollectorGetStranded

SpecReport == Init /\ [][ReportNext]_vars

\* the runs that can enter the cleanup: started with --remove-stranded or, for
\* zigbee-offline-monitor, without --no-interactive (the prompt may be answered yes)
CleanupInit ==
    /\ Init
    /\ IF script = "zigbee-offline-monitor"
       THEN args.remove_stranded \/ ~args.no_interactive
       ELSE args.remove_stranded

SpecCleanup == CleanupInit /\ [][Next]_vars

\* the runs of both scripts from before the connection to the broker
ConnectInit ==
    \/ MonitorStart("connect", "stopped", "none")
    \/ CollectorStart("connect", "stopped", "none")

ConnectNext ==
    \/ \E outcome \in ConnectOutcomes : MonitorConnect(outcome)
    \/ \E outcome \in ConnectOutcomes : CollectorConnect(outcome)
    \/ Next

SpecConnect == ConnectInit /\ [][ConnectNext]_vars

\* the runs of both scripts up to their report, in which the user may press Ctrl-C
\* during the window
InterruptNext == ReportNext \/ MonitorInterrupt \/ CollectorInterrupt

SpecInterrupt == Init /\ [][InterruptNext]_vars

\* z2m-get-offline.py alone
SpecOfflineScan == OfflineScanInit /\ [][OfflineScanNext]_vars

\* graylog-maintenance.py run up to MaxRuns times against one server
SpecMaintenance == MaintenanceInit /\ [][MaintenanceNext]_vars

\* unifi-delete-offline-devices.py alone
SpecUnifi == UnifiInit /\ [][UnifiNext]_vars

(* ------------------------- what a run reports -------------------------- *)
IsMonitor == script = "zigbee-offline-monitor"
IsCollector == script = "z2m-get-devices"

\* the classification has been computed and printed
Reported ==
    \/ IsMonitor /\ pc \in {"decide", "clear_stranded_devices", "clear_listen", "done"}
    \/ IsCollector /\ args.stranded /\ pc \in {"remove_stranded_devices", "remove_listen", "done"}

\* the coordinator has a roster snapshot
HasRoster(c) ==
    IF IsMonitor THEN c \in DOMAIN coordinator_devices ELSE c \in DOMAIN devices

\* the display names of the coordinator's current roster
RosterNames(c) ==
    IF IsMonitor THEN Range(Get(coordinator_devices, c, << >>))
    ELSE LET device_list == Get(devices, c, << >>)
         IN { device_list[i].f["friendly_name"].s :
                i \in { j \in DOMAIN device_list :
                          isdict(device_list[j]) /\ "friendly_name" \in DOMAIN device_list[j].f } }

\* the names reported stranded for the coordinator
StrandedSet(c) ==
    LET entries == Get(stranded_devices, c, << >>)
    IN IF IsMonitor THEN Range(entries)
       ELSE { entries[i].device : i \in DOMAIN entries }

\* the names reported offline for the coordinator
OfflineSet(c) ==
    IF IsMonitor THEN offline_devices[c]
    ELSE { merged[i].friendly_name :
             i \in { j \in DOMAIN merged : merged[j].bridge = c
                                           /\ merged[j].availability = offline } }

\* the availability record of the coordinator: device name -> last state
AvailabilityRecord(c) ==
    IF IsMonitor THEN retained_availability[c] ELSE Get(availability, c, EmptyDict)

\* this step computes the stranded list of coordinator c
ClassifiesNow(c) ==
    \/ IsMonitor /\ pc = "classify" /\ pc' = "decide"
    \/ /\ IsCollector /\ pc = "get_stranded_devices" /\ pc' = "get_stranded_devices"
       /\ iter'.active /\ c \notin iter'.todo
       /\ all_device_topics[c] # {}
       /\ (iter.active => c \in iter.todo)

(* ------------------------------- C1 ------------------------------------ *)
\* C1: when the stranded list of a coordinator that has a roster is computed, a
\* device name other than "Coordinator" is in it if and only if the name was
\* observed for that coordinator and is not a display name of its current roster.
C1_StrandedIsObservedMinusRoster ==
    [][ \A c \in COORDINATORS :
          ClassifiesNow(c) /\ HasRoster(c) =>
            \A n \in DeviceNames \ {Coordinator} :
              (n \in StrandedSet(c)') <=> (n \in all_device_topics[c] /\ n \notin RosterNames(c))
      ]_vars

\* Scenario A: roster [Plug1]; Plug1 and Plug observed; Plug1 offline
C1_Witness ==
    /\ IsMonitor /\ Reported
    /\ coordinator_devices = Put(EmptyDict, zigbee15, << Plug1 >>)
    /\ all_device_topics[zigbee15] = {Plug, Plug1}
    /\ StrandedSet(zigbee15) = {Plug}
    /\ OfflineSet(zigbee15) = {Plug1}

C3_StrandedOfflineDisjoint ==
    Reported => \A c \in COORDINATORS :
                  HasRoster(c) => StrandedSet(c) \cap OfflineSet(c) = {}

(* ------------------------------- C4 ------------------------------------ *)
\* C4: once an availability message for "Coordinator" was recorded for a
\* coordinator, the report has "Coordinator" in its stranded set and not in its
\* offline set, whatever the state and whatever the roster.
C4_CoordinatorAlwaysStranded ==
    Reported => \A c \in COORDINATORS :
                  Coordinator \in DOMAIN AvailabilityRecord(c) =>
                    Coordinator \in StrandedSet(c) /\ Coordinator \notin OfflineSet(c)

(* ------------------------------- C5 ------------------------------------ *)
\* topic is coordinator/device or lies below coordinator/device/
Under(topic, c, d) ==
    topic = Slash(c, d) \/ startswith(topic, Slash(c, d) \o <<"/">>)

\* C5: every tombstone goes to coordinator/device or below coordinator/device/ for
\* a stranded pair, and none goes to a topic of a device named in the
\* coordinator's roster.
C5_TombstonesOnlyStranded ==
    \A i \in DOMAIN published :
      /\ \E c \in COORDINATORS : \E d \in StrandedSet(c) : Under(published[i], c, d)
      /\ \A c \in COORDINATORS : \A n \in RosterNames(c) : ~Under(published[i], c, n)

(* ------------------------------- C6 ------------------------------------ *)
\* C6: a name is reported offline only if the last availability state recorded
\* for it is exactly "offline".
C6_OfflineIsLastState ==
    Reported => \A c \in COORDINATORS : \A n \in OfflineSet(c) :
                  /\ n \in DOMAIN AvailabilityRecord(c)
                  /\ AvailabilityRecord(c)[n] = offline

(* ------------------------------- C7 ------------------------------------ *)
\* the names, addresses and address-to-name pairs a bridge/devices list carries
NamesIn(l) ==
    { l[i].f["friendly_name"].s :
        i \in { j \in DOMAIN l : isdict(l[j]) /\ "friendly_name" \in DOMAIN l[j].f } }

IeeesIn(l) ==
    { l[i].f["ieee_address"].s :
        i \in { j \in DOMAIN l : isdict(l[j]) /\ "ieee_address" \in DOMAIN l[j].f } }

PairsIn(l) ==
    { << l[i].f["ieee_address"].s, l[i].f["friendly_name"].s >> :
        i \in { j \in DOMAIN l : isdict(l[j]) /\ "ieee_address" \in DOMAIN l[j].f
                                  /\ "friendly_name" \in DOMAIN l[j].f } }

Classifying ==
    \/ IsMonitor /\ pc = "classify"
    \/ IsCollector /\ pc = "get_stranded_devices" /\ iter.active

\* C8: while the main thread classifies, no message callback of the delivery
\* thread changes the accumulated roster, observed-topic or availability state.
C8_NoDeliveryWhileClassifying ==
    [][ Classifying =>
          ~( /\ delivered' = delivered + 1
             /\ on_message_cb = "on_message"
             /\ << coordinator_devices, all_device_topics, retained_availability,
                   offline_devices, devices, availability >>'
                # << coordinator_devices, all_device_topics, retained_availability,
                     offline_devices, devices, availability >> )
      ]_vars

(* ------------------------------- C9 ------------------------------------ *)
\* C9: whatever payload a message carries, the handler returns without raising
\* and the delivery thread goes on to the later messages.
C9_HandlerNeverRaises == raised = "none" /\ loop # "dead"

(* ------------------------------- C10 ----------------------------------- *)
\* the payload is a JSON list whose items are all objects
WellFormedList(payload) ==
    /\ loads(payload).exc = "none"
    /\ islist(loads(payload).v)
    /\ \A i \in DOMAIN loads(payload).v.items : isdict(loads(payload).v.items[i])

\* C10: a bridge/devices message whose payload is not a well-formed list of
\* entries leaves the roster names, addresses and address-to-name map unchanged
\* and prints a diagnostic line.
C10_BadListDroppedWithDiagnostic ==
    [][ \A c \in COORDINATORS : \A payload \in DevicesPayloads :
          ( ~WellFormedList(payload)
            /\ MonitorDeliverMsg(BridgeTopic(c, sfx_devices), payload) )
          => /\ UNCHANGED << coordinator_devices, coordinator_ieee_addresses,
                             ieee_to_friendly_name >>
             /\ Len(stdout') > Len(stdout)
      ]_vars

(* ------------------------------- C11 ----------------------------------- *)
\* C11: every delivered message whose topic has at least two segments, the second
\* not starting with "bridge", puts (coordinator, second segment) in the observed
\* set whatever its payload, and no step ever removes a pair from the set.
C11_EveryDeviceTopicObserved ==
    [][ /\ \A msg \in Messages :
             LET parts == topic_split[msg[1]] IN
             ( /\ Len(parts) >= 2
               /\ ~startswith(parts[2], bridge)
               /\ MonitorDeliverMsg(msg[1], msg[2]) \/ CollectorDeliverMsg(msg[1], msg[2]) )
             => parts[2] \in all_device_topics'[parts[1]]
        /\ \A c \in COORDINATORS : all_device_topics[c] \subseteq all_device_topics'[c]
      ]_vars

(* ------------------------------- C12 ----------------------------------- *)
\* the IEEE addresses reported as stranded health entries for the coordinator
StrandedHealthSet(c) == { e[1] : e \in Get(stranded_health, c, {}) }

\* the IEEE addresses of the coordinator's current roster: those of the last
\* bridge/devices list, or the keys of the bridge/info devices object when the
\* roster was loaded from bridge/info
RosterIeees(c) ==
    IF c \in DOMAIN coordinator_ieee_addresses THEN coordinator_ieee_addresses[c]
    ELSE DOMAIN InfoDevices.f

\* C12: for a coordinator with a health report and a roster, the stranded health
\* entries reported are exactly the keys of the last health report that are not
\* IEEE addresses of the current roster.
C12_StrandedHealthIsHealthMinusRoster ==
    (IsMonitor /\ Reported) =>
      \A c \in (DOMAIN health_devices) \cap (DOMAIN coordinator_devices) :
        StrandedHealthSet(c) = (DOMAIN health_devices[c]) \ RosterIeees(c)

(* ------------------------------- C13 ----------------------------------- *)
\* a step of the main thread that belongs to the classification
ClassificationStep ==
    \/ IsMonitor /\ pc = "classify" /\ pc' = "decide"
    \/ /\ IsCollector /\ pc \in {"get_merged_devices", "get_stranded_devices"}
       /\ delivered' = delivered

\* the stranded set zigbee-offline-monitor's classification computes for the
\* coordinator from the accumulated state
Reclassified(c) ==
    (IF c \in DOMAIN coordinator_devices
     THEN stranded_names(all_device_topics[c], coordinator_devices[c]) ELSE {})
    \cup (IF Coordinator \in offline_devices[c] THEN {Coordinator} ELSE {})

\* C13: the classification leaves the roster, observed-topic, availability and
\* offline-tracking state unchanged, and classifying once more from the state it
\* leaves gives the same stranded and offline sets.
C13_ClassificationIsPure ==
    [][ ClassificationStep =>
          /\ UNCHANGED << coordinator_devices, all_device_topics, retained_availability,
                          offline_devices, devices, availability >>
          /\ IsMonitor => \A c \in COORDINATORS :
                            /\ Reclassified(c)' = StrandedSet(c)'
                            /\ offline_devices'[c] \ {Coordinator} = OfflineSet(c)'
      ]_vars

(* ------------------------------- C14 ----------------------------------- *)
\* the discovery listen window of the cleanup is open
DiscoveryWindow == pc \in {"clear_listen", "remove_listen"}

\* C14: a tombstone is published only by the step that closes the discovery
\* window, and every topic delivered during the window at or below the topic of
\* a stranded pair is collected and is tombstoned when its publish goes through.
C14_DiscoverThenClear ==
    [][ /\ published' # published => DiscoveryWindow /\ ~DiscoveryWindow'
        /\ DiscoveryWindow => published = << >>
        /\ DiscoveryWindow /\ DiscoveryWindow' =>
             /\ Range(topics_to_clear) \subseteq Range(topics_to_clear')
             /\ \A topic \in Topics :
                  ( /\ MonitorCollectMsg(topic) \/ CollectorCollectMsg(topic)
                    /\ \E c \in COORDINATORS : \E d \in StrandedSet(c) : Under(topic, c, d) )
                  => topic \in Range(topics_to_clear')
        /\ DiscoveryWindow /\ ~DiscoveryWindow' =>
             \A outcome \in [DOMAIN topics_to_clear -> {"sent"}] :
                MonitorClearWith(outcome) \/ CollectorRemoveWith(outcome)
                => Range(published') = Range(topics_to_clear)
      ]_vars

\* Plug is stranded; its availability topic was delivered in the discovery window
\* and tombstoned
C14_Witness ==
    /\ pc = "done"
    /\ Plug \in StrandedSet(zigbee15)
    /\ published = << Slash(Slash(zigbee15, Plug), sfx_availability) >>


(* ------------------------------- C15 ----------------------------------- *)
\* the lines of the offline/stranded report of either script
ReportLines ==
    { "Found offline devices", "Total devices checked", "Found stranded devices",
      "Total devices", "Found stranded device(s)" }

ReportPrinted == \E i \in DOMAIN stdout : stdout[i].line \in ReportLines

\* the user pressed Ctrl-C during the monitoring window
Interrupted ==
    \E i \in DOMAIN stdout :
        stdout[i].line \in { "KeyboardInterrupt", "Operation cancelled by user" }

RunEnded == pc \in { "done", "failed", "interrupted", "cancelled" }

ConnectFailureLines ==
    { "OSError", "Failed to connect to MQTT broker", "Error connecting to MQTT broker" }

ConnectFailureReported == \E i \in DOMAIN stdout : stdout[i].line \in ConnectFailureLines

\* C16: when the connection fails or the broker rejects it, the failure is
\* reported, no report is printed, the network thread does not try again, and the
\* run does not come to its normal end (exit status 0) but ends with status 1.
C16_ConnectFailureIsFatal ==
    connection \in { "rejected", "unreachable" } =>
        /\ ConnectFailureReported
        /\ ~ReportPrinted
        /\ loop # "reconnecting"
        /\ pc # "done"


(* ------------------------------- C17 ----------------------------------- *)
\* the main thread is in the monitoring window
InWindow ==
    \/ IsMonitor /\ pc = "window"
    \/ IsCollector /\ pc = "collect_devices"

\* C17: the monitoring window can always end, whether or not a roster has arrived,
\* and the step that ends it goes on to the classification of what was collected.
C17_WindowEndsThenClassifies ==
    [][ /\ (IsMonitor /\ pc = "window") => ENABLED MonitorLoopStop
        /\ (IsCollector /\ pc = "collect_devices") => ENABLED CollectorWaitOver
        /\ (InWindow /\ pc' # pc) => pc' \in { "classify", "get_merged_devices" }
      ]_vars


(* ------------------------------- C18 ----------------------------------- *)
Prompted == \E i \in DOMAIN stdout : stdout[i].line = "Remove stranded devices? [y/N]"

\* C18: a run of zigbee-offline-monitor with --no-interactive never prompts, never
\* enters the cleanup and never publishes a tombstone, whatever the other flags are.
C18_NoInteractiveNeverRemoves ==
    (IsMonitor /\ args.no_interactive) =>
        /\ ~Prompted
        /\ pc \notin { "clear_stranded_devices", "clear_listen" }
        /\ published = << >>


(* ------------------------------- C19 ----------------------------------- *)
\* the number printed in the last line, "Cleared N retained message(s)"
ClearedCount == stdout[Len(stdout)].n

\* the planned topics whose publish failed
FailedCount(outcome) == Cardinality({ i \in DOMAIN outcome : outcome[i] = "failed" })

\* C19: when the publish of a planned tombstone fails, the cleanup is not aborted:
\* every other planned tombstone is still published, in order, the run comes to its
\* end, and the failed topic is counted as a failure, not as a cleared message.
C19_FailedPublishCountedNotFatal ==
    [][ \A outcome \in [DOMAIN topics_to_clear -> PublishOutcomes] :
          (MonitorClearWith(outcome) \/ CollectorRemoveWith(outcome)) =>
              /\ published' = sent(topics_to_clear, outcome)
              /\ pc' = "done"
              /\ ClearedCount' = Len(topics_to_clear) - FailedCount(outcome)
      ]_vars


(* ------------------------------- C20 ----------------------------------- *)
\* the characters of the names, in the order of their code points
CodePoints ==
    << "0","1","2","3","4","5","6","7","8","9",
       "A","B","C","D","E","F","G","H","I","J","K","L","M",
       "N","O","P","Q","R","S","T","U","V","W","X","Y","Z","_",
       "a","b","c","d","e","f","g","h","i","j","k","l","m",
       "n","o","p","q","r","s","t","u","v","w","x","y","z" >>

ord(ch) == CHOOSE i \in DOMAIN CodePoints : CodePoints[i] = ch

RECURSIVE str_lt(_, _)
\* a < b for Python strings
str_lt(a, b) ==
    IF b = << >> THEN FALSE
    ELSE IF a = << >> THEN TRUE
    ELSE IF Head(a) = Head(b) THEN str_lt(Tail(a), Tail(b))
    ELSE ord(Head(a)) < ord(Head(b))

\* the names come in lexicographic order
IsSorted(names) ==
    \A i, j \in DOMAIN names : i < j => ~str_lt(names[j], names[i])

\* sorted(devices) for a list of names
sorted(names) ==
    LET permutations == { p \in [DOMAIN names -> DOMAIN names] : Range(p) = DOMAIN names }
    IN CHOOSE seq \in { [ i \in DOMAIN names |-> names[p[i]] ] : p \in permutations } :
           IsSorted(seq)

Formats == { "table", "csv", "json" }

\* print_section: the names printed below one coordinator, whose devices are a
\* list (stranded) or a set (offline)
print_section(names) == sorted(names)

list(S) == CHOOSE seq \in Orders(S) : TRUE

\* print_stranded_devices: the names printed for one bridge in one format
print_stranded_devices(device_infos, output_format) ==
    LET listed == [ i \in DOMAIN device_infos |-> device_infos[i].device ]
    IN IF output_format = "table" THEN sorted(listed) ELSE listed

RECURSIVE print_devices(_, _)
\* print_devices with offline_only: the offline names printed for one bridge; the
\* three formats go through the list in the same order
print_devices(device_list, bridge_name) ==
    IF device_list = << >> THEN << >>
    ELSE LET device == Head(device_list)
             rest == print_devices(Tail(device_list), bridge_name)
         IN IF device.bridge = bridge_name /\ device.availability = offline
            THEN << device.friendly_name >> \o rest
            ELSE rest

\* C20: in the report, the stranded devices and the offline devices of each
\* coordinator are emitted in lexicographic order of their names, in every format.
C20_EmittedInNameOrder ==
    Reported =>
        \A c \in COORDINATORS :
            /\ IsMonitor =>
                  /\ IsSorted(print_section(Get(stranded_devices, c, << >>)))
                  /\ IsSorted(print_section(list(offline_devices[c])))
            /\ IsCollector =>
                  \A output_format \in Formats :
                      /\ IsSorted(print_stranded_devices(Get(stranded_devices, c, << >>),
                                                         output_format))
                      /\ IsSorted(print_devices(merged, c))


(* ------------------------------- C22 ----------------------------------- *)
\* the topic ends in /bridge/info
IsInfoTopic(topic) == endswith(topic, <<"/">> \o Slash(bridge, sfx_info))

\* the entry of a key differs between two dicts
EntryChanged(before, after, k) ==
    \/ (k \in DOMAIN before) # (k \in DOMAIN after)
    \/ k \in DOMAIN before /\ k \in DOMAIN after /\ before[k] # after[k]

\* the messages on a coordinator's bridge/devices topic, on a bridge/info topic
DevicesMessages ==
    [ c \in COORDINATORS |-> { msg \in Messages : msg[1] = BridgeTopic(c, sfx_devices) } ]

InfoMessages ==
    [ c \in COORDINATORS |->
        { msg \in Messages : IsInfoTopic(msg[1]) /\ topic_split[msg[1]][1] = c } ]

\* the bridge/devices messages that carry a well-formed list
ValidDevicesMessages ==
    [ c \in COORDINATORS |-> { msg \in DevicesMessages[c] : WellFormedList(msg[2]) } ]

\* the names each of them carries
NamesOfMessage ==
    [ msg \in UNION { ValidDevicesMessages[c] : c \in COORDINATORS } |->
        NamesIn(loads(msg[2]).v.items) ]

\* C22: in zigbee-offline-monitor the roster recorded for a coordinator changes
\* only through a bridge/devices message or, while none is recorded, through a
\* bridge/info message; a bridge/devices message with a well-formed list sets the
\* roster names to those of the list, whatever was recorded before.
C22_InfoOnlyFillsDevicesReplaces ==
    [][ (IsMonitor /\ pc = "window" /\ delivered' # delivered) =>
          \A c \in COORDINATORS :
            /\ ( \/ EntryChanged(coordinator_devices, coordinator_devices', c)
                 \/ EntryChanged(coordinator_ieee_addresses, coordinator_ieee_addresses', c)
                 \/ EntryChanged(ieee_to_friendly_name, ieee_to_friendly_name', c) ) =>
                  \/ \E msg \in DevicesMessages[c] : MonitorDeliverMsg(msg[1], msg[2])
                  \/ /\ c \notin DOMAIN coordinator_devices
                     /\ \E msg \in InfoMessages[c] : MonitorDeliverMsg(msg[1], msg[2])
            /\ \A msg \in ValidDevicesMessages[c] :
                  MonitorDeliverMsg(msg[1], msg[2]) =>
                      /\ c \in DOMAIN coordinator_devices'
                      /\ Range(coordinator_devices'[c]) = NamesOfMessage[msg]
      ]_vars

\* the roster of zigbee15 came from bridge/info, a bridge/devices list with Plug1
\* replaced it, and a third message left it as it was
C22_Witness ==
    /\ IsMonitor
    /\ delivered = 3
    /\ stdout = << Line("Loaded devices (via bridge/info)", zigbee15, 1),
                   Line("Loaded devices", zigbee15, 1) >>
    /\ coordinator_devices[zigbee15] = << Plug1 >>


(* ------------------------------- C25 ----------------------------------- *)
\* C25: in z2m-get-devices the device list stored for a bridge never changes and
\* is never removed, whatever is delivered later, and a list gets stored only by
\* the delivery of a bridge/devices message of that bridge carrying a JSON list,
\* which is stored as received.
C25_FirstListKept ==
    [][ \A c \in COORDINATORS :
          /\ c \in DOMAIN devices => c \in DOMAIN devices' /\ devices'[c] = devices[c]
          /\ (c \notin DOMAIN devices /\ c \in DOMAIN devices') =>
                \E msg \in DevicesMessages[c] :
                    /\ CollectorDeliverMsg(msg[1], msg[2])
                    /\ loads(msg[2]).exc = "none" /\ islist(loads(msg[2]).v)
                    /\ devices'[c] = loads(msg[2]).v.items
      ]_vars

\* zigbee15's list with Plug1 was stored and three messages were delivered; Plug
\* was observed and is reported stranded although a later list could have named it
C25_Witness ==
    /\ IsCollector /\ Reported
    /\ delivered = 3
    /\ devices = Put(EmptyDict, zigbee15, << EntryPlug1 >>)
    /\ all_device_topics[zigbee15] = {Plug}
    /\ availability = EmptyDict
    /\ StrandedSet(zigbee15) = {Plug}


(* ------------------------------- C26 ----------------------------------- *)
\* the stranded (coordinator, device) pairs
StrandedPairs ==
    UNION { { << c, n >> : n \in Range(stranded_devices[c]) } : c \in DOMAIN stranded_devices }

\* the number printed in "Found N stranded devices"
FoundStranded ==
    LET i == CHOOSE j \in DOMAIN stdout : stdout[j].line = "Found stranded devices"
    IN stdout[i].n

\* C26: in the report of zigbee-offline-monitor no stranded list holds a name
\* twice, and the printed count is the number of distinct stranded pairs.
C26_StrandedListDuplicateFree ==
    (IsMonitor /\ Reported) =>
        /\ \A c \in DOMAIN stranded_devices :
              Cardinality(Range(stranded_devices[c])) = Len(stranded_devices[c])
        /\ FoundStranded = Cardinality(StrandedPairs)


(* ------------------------------- C27 ----------------------------------- *)
\* C27: in zigbee-offline-monitor the keys of a coordinator's address-to-name map
\* are addresses of that coordinator's roster address set, and every stranded
\* health entry is reported without a display name.
C27_MapKeysInRosterAddresses ==
    IsMonitor =>
        /\ \A c \in DOMAIN ieee_to_friendly_name :
              /\ c \in DOMAIN coordinator_ieee_addresses
              /\ DOMAIN ieee_to_friendly_name[c] \subseteq coordinator_ieee_addresses[c]
        /\ \A c \in DOMAIN stranded_health :
              \A entry \in stranded_health[c] : entry[2] = EmptyStr

\* the roster of zigbee15 maps 0xa to Plug, the health report also tracks 0xb,
\* and 0xb is reported as a stranded health entry
C27_Witness ==
    /\ IsMonitor /\ Reported
    /\ ieee_to_friendly_name = Put(EmptyDict, zigbee15, Put(EmptyDict, IeeeA, Plug))
    /\ zigbee15 \in DOMAIN health_devices
    /\ DOMAIN health_devices[zigbee15] = {IeeeA, IeeeB}
    /\ stranded_health = Put(EmptyDict, zigbee15, { << IeeeB, EmptyStr >> })


(* ------------------------------- C30 ----------------------------------- *)
\* C30: in a cleanup pass in which every publish goes through, no topic is
\* tombstoned twice and the count printed is the number of distinct topics cleared.
C30_EachTopicClearedOnce ==
    [][ (DiscoveryWindow /\ ~DiscoveryWindow') =>
          \A outcome \in [DOMAIN topics_to_clear -> {"sent"}] :
            (MonitorClearWith(outcome) \/ CollectorRemoveWith(outcome)) =>
                /\ Cardinality(Range(published')) = Len(published')
                /\ ClearedCount' = Cardinality(Range(published'))
      ]_vars

(* ------------------------------- C28 ----------------------------------- *)
\* the last availability message of the scan for this device said "online"
LastSaidOnline(bridge_name, device_name) ==
    LET topic == Slash(Slash(bridge_name, device_name), sfx_availability)
    IN  /\ topic \in DOMAIN history
        /\ history[topic] = Json(JObj([state |-> JStr(online)]))

\* C28: when z2m-get-offline ends its scan, no device whose most recent
\* availability message said "online" is in the reported offline list, and the
\* exit status is 1 only if some listed device did not end the scan online
C28_OnlineAtEndNotReported ==
    (IsOfflineScan /\ pc \in {"exit_0", "exit_1"}) =>
        /\ \A i \in DOMAIN offline_devices :
              ~LastSaidOnline(offline_devices[i].bridge, offline_devices[i].device)
        /\ pc = "exit_1" =>
              \E i \in DOMAIN offline_devices :
                  ~LastSaidOnline(offline_devices[i].bridge, offline_devices[i].device)

(* ------------------------------- C21 ----------------------------------- *)
\* every request of the run succeeded
Clean(run) ==
    /\ run.get = 200
    /\ \A i \in DOMAIN run.requests : run.requests[i].status = 200

\* the run sent this request for this definition
Asked(run, op, id) ==
    \E i \in DOMAIN run.requests : run.requests[i].op = op /\ run.requests[i].id = id

\* C21: a --mute run followed by an --unmute run, every request of both
\* succeeding: a definition the mute found DISABLED gets no schedule request and
\* is still DISABLED, a non-system definition the mute found enabled gets a
\* schedule request and is enabled again
C21_MuteUnmuteRoundTrip ==
    IsMaintenance =>
        \A r \in 1..(Len(history) - 1) :
            ( /\ history[r].mode = "mute" /\ Clean(history[r])
              /\ history[r + 1].mode = "unmute" /\ Clean(history[r + 1]) ) =>
                \A i \in DOMAIN history[r].found :
                    LET event == history[r].found[i]
                    IN  /\ event.state = DISABLED =>
                              /\ ~Asked(history[r + 1], "schedule", event.id)
                              /\ history[r + 1].left[i].state = DISABLED
                        /\ (event.state = ENABLED_ /\ event.scope # SYSTEM_NOTIFICATION_EVENT) =>
                              /\ Asked(history[r + 1], "schedule", event.id)
                              /\ history[r + 1].left[i].state = ENABLED_

\* a mute that found one definition disabled, one enabled and one system
\* definition, then an unmute that re-scheduled the enabled one only
C21_Witness ==
    /\ IsMaintenance
    /\ Len(history) = 2
    /\ history[1].mode = "mute" /\ Clean(history[1])
    /\ history[2].mode = "unmute" /\ Clean(history[2])
    /\ history[1].found =
          << [id |-> IdA, state |-> DISABLED, scope |-> DEFAULT],
             [id |-> IdB, state |-> ENABLED_, scope |-> DEFAULT],
             [id |-> IdC, state |-> ENABLED_, scope |-> SYSTEM_NOTIFICATION_EVENT] >>
    /\ history[1].requests = << [op |-> "unschedule", id |-> IdB, status |-> 200] >>
    /\ requests = << [op |-> "schedule", id |-> IdB, status |-> 200] >>
    /\ event_definitions = history[1].found
    /\ last_disabled_txt = None
    /\ pc = "exit_0"

(* ------------------------------- C29 ----------------------------------- *)
\* C29: two or more consecutive --mute runs followed by an --unmute run, every
\* request succeeding: each non-system definition that was enabled before the
\* first of the mutes gets a schedule request and is enabled again
C29_RepeatedMuteKeepsRecord ==
    IsMaintenance =>
        \A r \in 1..Len(history), u \in 1..Len(history) :
            ( /\ u >= r + 2
              /\ \A k \in r..(u - 1) : history[k].mode = "mute" /\ Clean(history[k])
              /\ history[u].mode = "unmute" /\ Clean(history[u]) ) =>
                \A i \in DOMAIN history[r].found :
                    LET event == history[r].found[i]
                    IN  (event.state = ENABLED_ /\ event.scope # SYSTEM_NOTIFICATION_EVENT) =>
                            /\ Asked(history[u], "schedule", event.id)
                            /\ history[u].left[i].state = ENABLED_

C24_ShownDevicesDeleted ==
    (IsUnifi /\ args.delete /\ args.force /\ pc = "done") =>
        \A i \in DOMAIN filtered_devices :
            \E r \in DOMAIN requests :
                requests[r].macs = << mac_formatted(filtered_devices[i].mac) >>

====
